---- MODULE Spec2Model ----
(***************************************************************************)
(* Order lifecycle and wallet ledger of the storefront bot.                *)
(*                                                                         *)
(* The database tables users, wallet_tx and orders are the state; every    *)
(* db.py function is an operator over a database value D (a record of the  *)
(* three tables), composed exactly in the order the handlers call them.    *)
(*                                                                         *)
(*   Spec      whole handlers, one step per handler (bot, sweeper, panel)  *)
(*   SpecWallet, SpecStatus   direct calls of change_wallet and of         *)
(*             set_order_status / apply_order_cashback, drawn arguments    *)
(*   SpecSweep the sweeper with the handlers that reserve wallet funds     *)
(*   SpecLife  the handlers that move an order from status to status      *)
(*   SpecConc  the bot process and the admin-panel process, one database   *)
(*             statement per step                                          *)
(***************************************************************************)
EXTENDS Integers, Sequences, FiniteSets, TLC

(* ------------------------------ bounds -------------------------------- *)
\* Spec: users, orders rows, wallet_tx rows, clock ticks
NumUsers == 1
MaxOrders == 1
MaxTx == 3
MaxTicks == 1
\* SpecWallet, SpecStatus and SpecSweep: orders rows and wallet_tx rows
WalletMaxTx == 2
StatusMaxOrders == 1
StatusMaxTx == 2
SweepMaxOrders == 2
SweepMaxTx == 3
\* SpecLife: orders rows and wallet_tx rows
LifeMaxOrders == 1
LifeMaxTx == 3
\* SpecCreate: orders rows
CreateMaxOrders == 2
\* SpecShare: users, wallet_tx rows, tasks waiting on the event loop
NumShareUsers == 2
ShareMaxTx == 3
MaxTasks == 2
\* SpecDiscount: orders rows
DiscountMaxOrders == 2
\* SpecCoupon: wallet_tx rows
CouponMaxTx == 3
\* SpecRefund: orders rows and wallet_tx rows
RefundMaxOrders == 1
RefundMaxTx == 6
\* SpecPay: orders rows and wallet_tx rows; rows of a promotion table
PayMaxOrders == 1
PayMaxTx == 3
MaxPromos == 1
\* SpecNotify: orders rows and wallet_tx rows
NotifyMaxOrders == 2
NotifyMaxTx == 3
\* SpecCart: orders rows
CartMaxOrders == 2
\* SpecIds: orders rows
IdMaxOrders == 3
\* SpecPlan: orders rows
PlanMaxOrders == 2
\* SpecCash: orders rows and wallet_tx rows
CashMaxOrders == 1
CashMaxTx == 4
\* SpecConc: orders rows and wallet_tx rows
ConcMaxOrders == 1
ConcMaxTx == 3

(* ------------------------- program constants -------------------------- *)
PAYMENT_TIMEOUT_MIN == 15
ORDER_ID_MIN_VALUE == 0

PAID_STATUSES == {"IN_PROGRESS", "READY_TO_DELIVER", "DELIVERED", "COMPLETED"}

\* keys of ORDER_STATUS_LABELS: the values the panel's status form accepts
ORDER_STATUS_LABELS ==
  {"AWAITING_PAYMENT", "PENDING_CONFIRM", "PENDING_PLAN", "PLAN_CONFIRMED",
   "APPROVED", "IN_PROGRESS", "READY_TO_DELIVER", "DELIVERED", "COMPLETED",
   "EXPIRED", "REJECTED", "CANCELED"}

TX_TYPES == {"CREDIT", "DEBIT", "RESERVE", "REFUND"}

(* --------------------------- drawn inputs ----------------------------- *)
UserIds == 1..NumUsers
Prices == {3}
CashbackPercents == {50}
AdjustActions == {"credit", "debit", "refund", "reserve"}
AdjustAmounts == {0, 4}
MixedAmounts == {0, 1, 3, 4}
LifePrices == {1, 3}
ConcMixedAmounts == {1, 3}
ConcAdjustActions == {"credit", "debit"}
ConcStatuses == {"IN_PROGRESS", "REJECTED", "CANCELED"}
DiscountCodes == {"save", " "}
DiscountAmounts == {1, 5}
\* amounts handed to create_order as text
AmountTexts ==
  {<<"3">>, <<"0">>, <<"-", "3">>, <<"2", ",", "0">>, <<"U+060C">>, <<"a">>, <<"3", "a">>,
   <<>>}
ApiPrices == {0, 3}
ApiPercents == {0, 50}
ApiDeltas == {-2, 0, 1}
NULL == -1
\* discounts: who calls, and what a discount is created with
DiscountCallers == {1, 2}
DiscountLimits == {0, 1}
DiscountUserLimits == {NULL, 2}
DiscountProducts == {{}, {1}, {2}}
\* coupons: the texts a customer sends, and what a coupon is created with
CouponTexts == {"save", " gift ", " "}
CouponAmounts == {0, 2}
CouponLimits == {0, 1, 2}
CouponUserLimits == {NULL, 0, 2}
CouponExpiries == {NULL, 10}

\* users, wallet_tx, orders: the tables; fsm: the FSM context of each chat;
\* now: the clock.  paid_before (the orders that have been in a paid status)
\* and last (the latest direct db.py call, with its return value) are
\* history variables; cap holds the row limits of the specification.
\* running: for the bot process and the admin-panel process, the database
\* statements the handler in progress has still to execute (SpecConc).
\* coupons, coupon_redemptions, discounts, discount_redemptions: the
\* promotion tables. order_seq: the ids of the orders table, its row of
\* sqlite_sequence and the ORDER_ID_MIN_VALUE the process was started with.
VARIABLES users, wallet_tx, orders, fsm, now, paid_before, last, cap, running,
          coupons, coupon_redemptions, discounts, discount_redemptions,
          order_seq

vars ==
  <<users, wallet_tx, orders, fsm, now, paid_before, last, cap, running,
    coupons, coupon_redemptions, discounts, discount_redemptions, order_seq>>

(* ----------------------------- helpers -------------------------------- *)
Max(a, b) == IF a >= b THEN a ELSE b

Abs(x) == IF x < 0 THEN -x ELSE x

\* the database value the operators work on
DB ==
  [users |-> users, wallet_tx |-> wallet_tx, orders |-> orders,
   coupons |-> coupons, coupon_redemptions |-> coupon_redemptions,
   discounts |-> discounts, discount_redemptions |-> discount_redemptions]

OrderIds(D) == DOMAIN D.orders

(* ------------------------------ db.py --------------------------------- *)
\* get_user: the balance row, or NULL when the user has no row
get_user(D, user_id) ==
  IF user_id \in DOMAIN D.users THEN D.users[user_id] ELSE NULL

\* the row change_wallet inserts into wallet_tx
TxRow(user_id, order_id, delta, tx_type, note) ==
  [user_id |-> user_id, order_id |-> order_id, amount |-> Abs(delta),
   type |-> tx_type, note |-> note]

\* no statement is left to execute in either process
Idle == [bot |-> <<>>, admin |-> <<>>]

\* change_wallet's check of the balance it computed
Overdrawn_never(new_bal) == FALSE

Overdrawn(new_bal) == new_bal < 0

change_wallet_nocheck(D, user_id, delta, tx_type, note, order_id) ==
  IF user_id \notin DOMAIN D.users
  THEN [ok |-> FALSE, db |-> D]
  ELSE [ok |-> TRUE,
        db |-> [D EXCEPT !.users[user_id] = D.users[user_id] + delta,
                         !.wallet_tx = Append(D.wallet_tx,
                            TxRow(user_id, order_id, delta, tx_type, note))]]

change_wallet(D, user_id, delta, tx_type, note, order_id) ==
  IF user_id \notin DOMAIN D.users
  THEN [ok |-> FALSE, db |-> D]
  ELSE LET new_bal == D.users[user_id] + delta IN
       IF Overdrawn(new_bal)
       THEN [ok |-> FALSE, db |-> D]
       ELSE [ok |-> TRUE,
             db |-> [D EXCEPT !.users[user_id] = new_bal,
                              !.wallet_tx = Append(D.wallet_tx,
                                 TxRow(user_id, order_id, delta, tx_type, note))]]

\* ensure_user: insert the users row (wallet_balance DEFAULT 0) when missing
ensure_user(D, user_id) ==
  IF user_id \in DOMAIN D.users
  THEN D
  ELSE [D EXCEPT !.users = [u \in DOMAIN D.users \cup {user_id} |->
                              IF u = user_id THEN 0 ELSE D.users[u]]]

\* the service_code the handlers pass to create_order with each category
ServiceCode(service_category) ==
  CASE service_category = "CATALOG" -> "product:1"
    [] service_category = "AI" -> "team"
    [] OTHER -> "request:1"

\* the orders row create_order inserts, with the deadline it then sets
\* the row as the INSERT alone leaves it, without the UPDATE of await_deadline
NewOrder_nodeadline(user_id, amount_total, service_category, cashback_percent, t) ==
  [user_id |-> user_id, amount_total |-> amount_total,
   service_category |-> service_category, status |-> "AWAITING_PAYMENT",
   service_code |-> ServiceCode(service_category),
   payment_type |-> "", discount_id |-> NULL, discount_code |-> "",
   discount_amount |-> 0,
   wallet_reserved_amount |-> 0, wallet_used_amount |-> 0,
   await_deadline |-> NULL,
   cashback_percent |-> Max(cashback_percent, 0),
   cashback_applied_amount |-> 0]

NewOrder(user_id, amount_total, service_category, cashback_percent, t) ==
  [user_id |-> user_id, amount_total |-> amount_total,
   service_category |-> service_category, status |-> "AWAITING_PAYMENT",
   service_code |-> ServiceCode(service_category),
   payment_type |-> "", discount_id |-> NULL, discount_code |-> "",
   discount_amount |-> 0,
   wallet_reserved_amount |-> 0, wallet_used_amount |-> 0,
   await_deadline |-> t + PAYMENT_TIMEOUT_MIN,
   cashback_percent |-> Max(cashback_percent, 0),
   cashback_applied_amount |-> 0]

\* create_order without its check of the amount
create_order_nocheck(D, user_id, amount_total, service_category, cashback_percent, allow_free, t) ==
  [oid |-> Len(D.orders) + 1,
   db |-> [D EXCEPT !.orders = Append(D.orders,
             NewOrder(user_id, amount_total, service_category,
                      cashback_percent, t))]]

create_order(D, user_id, amount_total, service_category, cashback_percent, allow_free, t) ==
  IF amount_total <= 0 /\ ~allow_free
  THEN [oid |-> NULL, db |-> D]
  ELSE [oid |-> Len(D.orders) + 1,
        db |-> [D EXCEPT !.orders = Append(D.orders,
                  NewOrder(user_id, amount_total, service_category,
                           cashback_percent, t))]]

\* an amount given as text: a tuple of characters
Digits == <<"0", "1", "2", "3", "4", "5", "6", "7", "8", "9">>

IsDigit(c) == \E d \in 1..Len(Digits): Digits[d] = c

DigitOf(c) == (CHOOSE d \in 1..Len(Digits): Digits[d] = c) - 1

\* the characters create_order removes from a text amount: the comma and the
\* Arabic comma (written here by its code point)
Separators == {",", "U+060C"}

\* amount_total.replace(",", "").replace(<Arabic comma>, "")
RECURSIVE StripSeparators(_)
StripSeparators(text) ==
  IF text = <<>> THEN <<>>
  ELSE IF Head(text) \in Separators THEN StripSeparators(Tail(text))
       ELSE <<Head(text)>> \o StripSeparators(Tail(text))

RECURSIVE DecimalValue(_, _)
DecimalValue(text, acc) ==
  IF text = <<>> THEN acc
  ELSE DecimalValue(Tail(text), 10 * acc + DigitOf(Head(text)))

\* int(text): an optional sign followed by at least one digit, digits only
ParseInt(text) ==
  LET signed == text # <<>> /\ Head(text) \in {"-", "+"}
      body == IF signed THEN Tail(text) ELSE text
      valid == body # <<>> /\ \A i \in 1..Len(body): IsDigit(body[i])
      val == DecimalValue(body, 0)
  IN IF ~valid THEN [ok |-> FALSE, val |-> 0]
     ELSE [ok |-> TRUE,
           val |-> IF signed /\ Head(text) = "-" THEN -val ELSE val]

\* create_order called with the amount as a string
create_order_text(D, user_id, text, service_category, cashback_percent, allow_free, t) ==
  LET parsed == ParseInt(StripSeparators(text))
  IN IF ~parsed.ok THEN [oid |-> NULL, db |-> D]
     ELSE create_order(D, user_id, parsed.val, service_category,
                       cashback_percent, allow_free, t)

get_order(D, order_id) ==
  IF order_id \in OrderIds(D) THEN D.orders[order_id] ELSE NULL

set_order_payment_type(D, order_id, ptype) ==
  IF order_id \in OrderIds(D)
  THEN [D EXCEPT !.orders[order_id].payment_type = ptype] ELSE D

set_order_wallet_reserved(D, order_id, amount) ==
  IF order_id \in OrderIds(D)
  THEN [D EXCEPT !.orders[order_id].wallet_reserved_amount = amount] ELSE D

set_order_wallet_used(D, order_id, amount) ==
  IF order_id \in OrderIds(D)
  THEN [D EXCEPT !.orders[order_id].wallet_used_amount = amount] ELSE D

\* floor(amount_total * cashback_percent / 100)
CashbackTotal(o) ==
  Max((o.amount_total * Max(o.cashback_percent, 0)) \div 100, 0)

apply_order_cashback_noguard(D, order_id) ==
  IF order_id \notin OrderIds(D) THEN [credited |-> 0, db |-> D]
  ELSE LET order == D.orders[order_id]
           cashback_total == CashbackTotal(order)
           r == change_wallet(D, order.user_id, cashback_total, "CREDIT",
                              "CASHBACK", order_id)
       IN IF Max(order.cashback_percent, 0) <= 0 \/ cashback_total <= 0 \/ ~r.ok
          THEN [credited |-> 0, db |-> D]
          ELSE [credited |-> cashback_total,
                db |-> [r.db EXCEPT
                          !.orders[order_id].cashback_applied_amount =
                             cashback_total]]

apply_order_cashback(D, order_id) ==
  IF order_id \notin OrderIds(D) THEN [credited |-> 0, db |-> D]
  ELSE LET order == D.orders[order_id]
           percent == Max(order.cashback_percent, 0)
           cashback_total == CashbackTotal(order)
           already_applied == order.cashback_applied_amount
           remaining == Max(cashback_total - already_applied, 0)
           r == change_wallet(D, order.user_id, remaining, "CREDIT",
                              "CASHBACK", order_id)
       IN IF percent <= 0 \/ remaining <= 0 \/ ~r.ok
          THEN [credited |-> 0, db |-> D]
          ELSE [credited |-> remaining,
                db |-> [r.db EXCEPT
                          !.orders[order_id].cashback_applied_amount =
                             cashback_total]]

set_order_status_nocashback(D, order_id, status) ==
  IF order_id \notin OrderIds(D) THEN D
  ELSE [D EXCEPT !.orders[order_id].status = status]

set_order_status(D, order_id, status) ==
  IF order_id \notin OrderIds(D) THEN D
  ELSE LET previous == D.orders[order_id]
           U == [D EXCEPT !.orders[order_id].status = status]
           updated == U.orders[order_id]
       IN IF previous.status # updated.status
             /\ updated.status \in PAID_STATUSES
          THEN apply_order_cashback(U, order_id).db
          ELSE U

get_order_payable_amount(order) ==
  Max(order.amount_total - Max(order.discount_amount, 0), 0)

\* ids of the rows the sweeper's SELECT returns at time t, in rowid order
ExpiredSelection(D, t) ==
  SelectSeq([i \in 1..Len(D.orders) |-> i],
            LAMBDA i: /\ D.orders[i].status = "AWAITING_PAYMENT"
                      /\ D.orders[i].await_deadline # NULL
                      /\ D.orders[i].await_deadline <= t)

\* the body of the sweeper's for loop for one selected row o (a snapshot)
ExpireOne(D, rid, o) ==
  LET reserved == o.wallet_reserved_amount
      R == IF reserved > 0
           THEN set_order_wallet_reserved(
                  change_wallet(D, o.user_id, reserved, "REFUND", "EXPIRE",
                                rid).db, rid, 0)
           ELSE D
  IN set_order_status(R, rid, "EXPIRED")

RECURSIVE ExpireLoop(_, _, _)
ExpireLoop(D, D0, sel) ==
  IF sel = <<>> THEN D
  ELSE ExpireLoop(ExpireOne(D, Head(sel), D0.orders[Head(sel)]), D0, Tail(sel))

expire_orders_and_refund_norefund(D, t) ==
  LET sel == ExpiredSelection(D, t)
      RECURSIVE Mark(_, _)
      Mark(X, s) == IF s = <<>> THEN X
                    ELSE Mark(set_order_status(X, Head(s), "EXPIRED"), Tail(s))
  IN Mark(D, sel)

expire_orders_and_refund(D, t) ==
  ExpireLoop(D, D, ExpiredSelection(D, t))

user_has_delivered_order(D, user_id) ==
  \E i \in OrderIds(D): /\ D.orders[i].user_id = user_id
                        /\ D.orders[i].status \in {"DELIVERED", "COMPLETED"}

(* ------------------- aiogram FSM context, per user -------------------- *)
NoData ==
  [state |-> "none", order_receipt_for |-> 0, wallet_for |-> 0,
   plan_for |-> 0, mixed_for |-> 0, coupon_code |-> ""]

\* state.clear()
Clear(F, u) == [F EXCEPT ![u] = NoData]

(* ------------------------- db.py: promotions -------------------------- *)
\* (code or "").strip().upper() over the codes the inputs are drawn from
NormalizeCode(code) ==
  CASE code = "save" -> "SAVE"
    [] code = " gift " -> "GIFT"
    [] code = "gift" -> "GIFT"
    [] code = " " -> ""
    [] OTHER -> code

\* id of the row of table tbl whose code is the normalized code, 0 if none
IdByCode(tbl, code) ==
  LET normalized == NormalizeCode(code)
      hits == {i \in DOMAIN tbl: tbl[i].code = normalized}
  IN IF normalized = "" \/ hits = {} THEN 0 ELSE CHOOSE i \in hits: TRUE

\* a per-user limit no user reaches
PerUserLimit_none(row) == 9

\* int(row.get("usage_limit_per_user") or 1)
PerUserLimit(row) ==
  IF row.usage_limit_per_user = 0 THEN 1 ELSE row.usage_limit_per_user

\* a lookup that never finds the redemption row
RedemptionOf_none(tbl, id, user_id) == 0

\* index of the redemption row of (promotion id, user_id) in tbl, 0 if none
RedemptionOf(tbl, id, user_id) ==
  LET hits == {i \in DOMAIN tbl: tbl[i].promo_id = id /\ tbl[i].user_id = user_id}
  IN IF hits = {} THEN 0 ELSE CHOOSE i \in hits: TRUE

\* datetime.now() > expires_at, for a promotion row that has an expiry
Expired(row, t) == row.expires_at # NULL /\ t > row.expires_at

\* create_coupon: raises on an empty code, the INSERT fails on a code already
\* stored (code is UNIQUE); usage_limit_per_user None is stored as 1
create_coupon(D, code, amount, usage_limit, expires_at, usage_limit_per_user) ==
  IF NormalizeCode(code) = "" \/ IdByCode(D.coupons, code) # 0
  THEN D
  ELSE [D EXCEPT !.coupons = Append(D.coupons,
          [code |-> NormalizeCode(code), amount |-> amount,
           usage_limit |-> usage_limit,
           usage_limit_per_user |->
             IF usage_limit_per_user = NULL THEN 1 ELSE usage_limit_per_user,
           used_count |-> 0, expires_at |-> expires_at, is_active |-> TRUE])]

set_coupon_active(D, coupon_id, active) ==
  IF coupon_id \in DOMAIN D.coupons
  THEN [D EXCEPT !.coupons[coupon_id].is_active = active]
  ELSE D

\* redeem_coupon without its check of the user's earlier redemptions
redeem_coupon_nouserlimit(D, user_id, code, t) ==
  LET Fail(reason) ==
        [ok |-> FALSE, reason |-> reason, db |-> D, amount |-> 0,
         balance |-> 0]
      id == IdByCode(D.coupons, code)
      coupon == D.coupons[id]
      red == RedemptionOf(D.coupon_redemptions, id, user_id)
      existing_uses == IF red = 0 THEN 0
                       ELSE D.coupon_redemptions[red].times_used
      credit == change_wallet(D, user_id, coupon.amount, "CREDIT",
                              "COUPON:" \o coupon.code, 0)
      D1 == credit.db
      D2 == IF red # 0
            THEN [D1 EXCEPT !.coupon_redemptions[red].times_used =
                              existing_uses + 1]
            ELSE [D1 EXCEPT !.coupon_redemptions =
                    Append(D1.coupon_redemptions,
                      [promo_id |-> id, user_id |-> user_id,
                       amount |-> coupon.amount, times_used |-> 1])]
      D3 == [D2 EXCEPT !.coupons[id].used_count = @ + 1]
  IN IF NormalizeCode(code) = "" THEN Fail("bad_code")
     ELSE IF id = 0 THEN Fail("unknown")
     ELSE IF ~coupon.is_active THEN Fail("inactive")
     ELSE IF coupon.amount <= 0 THEN Fail("bad_amount")
     ELSE IF coupon.usage_limit # 0 /\ coupon.used_count >= coupon.usage_limit
          THEN Fail("limit_reached")
     ELSE IF Expired(coupon, t) THEN Fail("expired")
     ELSE IF ~credit.ok THEN Fail("credit_failed")
     ELSE [ok |-> TRUE, reason |-> "", db |-> D3, amount |-> coupon.amount,
           balance |-> D3.users[user_id]]

\* redeem_coupon without its check of the coupon's usage_limit
redeem_coupon_nolimit(D, user_id, code, t) ==
  LET Unlimited(tbl) == [i \in DOMAIN tbl |-> [tbl[i] EXCEPT !.usage_limit = 0]]
      r == redeem_coupon_nouserlimit([D EXCEPT !.coupons = Unlimited(@)],
                                     user_id, code, t)
      Restored(tbl) ==
        [i \in DOMAIN tbl |-> [tbl[i] EXCEPT !.usage_limit = D.coupons[i].usage_limit]]
  IN [r EXCEPT !.db.coupons = Restored(@)]

\* redeem_coupon refusing a user by the existence of a redemption row
redeem_coupon_byexistence(D, user_id, code, t) ==
  LET id == IdByCode(D.coupons, code)
      r == redeem_coupon_nouserlimit(D, user_id, code, t)
  IN IF r.ok /\ RedemptionOf(D.coupon_redemptions, id, user_id) # 0
     THEN [ok |-> FALSE, reason |-> "user_limit_reached", db |-> D,
           amount |-> 0, balance |-> 0]
     ELSE r

\* redeem_coupon that counts the use before its later checks
redeem_coupon_countsfirst(D, user_id, code, t) ==
  LET id == IdByCode(D.coupons, code)
      r == redeem_coupon_nouserlimit(D, user_id, code, t)
  IN IF r.ok \/ id = 0 THEN r
     ELSE [r EXCEPT !.db = [D EXCEPT !.coupons[id].used_count = @ + 1]]

\* redeem_coupon that credits the amount once more than the coupon holds
redeem_coupon_overcredit(D, user_id, code, t) ==
  LET r == redeem_coupon_nouserlimit(D, user_id, code, t)
  IN IF ~r.ok THEN r
     ELSE [r EXCEPT !.db.users[user_id] = @ + 1, !.balance = @ + 1]

redeem_coupon(D, user_id, code, t) ==
  LET Fail(reason) ==
        [ok |-> FALSE, reason |-> reason, db |-> D, amount |-> 0,
         balance |-> 0]
      id == IdByCode(D.coupons, code)
      coupon == D.coupons[id]
      red == RedemptionOf(D.coupon_redemptions, id, user_id)
      per_user_limit == PerUserLimit(coupon)
      existing_uses == IF red = 0 THEN 0
                       ELSE D.coupon_redemptions[red].times_used
      credit == change_wallet(D, user_id, coupon.amount, "CREDIT",
                              "COUPON:" \o coupon.code, 0)
      D1 == credit.db
      D2 == IF red # 0
            THEN [D1 EXCEPT !.coupon_redemptions[red].times_used =
                              existing_uses + 1]
            ELSE [D1 EXCEPT !.coupon_redemptions =
                    Append(D1.coupon_redemptions,
                      [promo_id |-> id, user_id |-> user_id,
                       amount |-> coupon.amount, times_used |-> 1])]
      D3 == [D2 EXCEPT !.coupons[id].used_count = @ + 1]
  IN IF NormalizeCode(code) = "" THEN Fail("bad_code")
     ELSE IF id = 0 THEN Fail("unknown")
     ELSE IF ~coupon.is_active THEN Fail("inactive")
     ELSE IF coupon.amount <= 0 THEN Fail("bad_amount")
     ELSE IF coupon.usage_limit # 0 /\ coupon.used_count >= coupon.usage_limit
          THEN Fail("limit_reached")
     ELSE IF Expired(coupon, t) THEN Fail("expired")
     ELSE IF per_user_limit # 0 /\ existing_uses >= per_user_limit
          THEN Fail("user_limit_reached")
     ELSE IF ~credit.ok THEN Fail("credit_failed")
     ELSE [ok |-> TRUE, reason |-> "", db |-> D3, amount |-> coupon.amount,
           balance |-> D3.users[user_id]]

\* create_discount: the INSERT fails on an empty or an already used code;
\* usage_limit_per_user None is stored as 1
create_discount(D, code, amount, usage_limit, usage_limit_per_user, applies_all, product_ids, expires_at) ==
  IF NormalizeCode(code) = "" \/ IdByCode(D.discounts, code) # 0
  THEN D
  ELSE [D EXCEPT !.discounts = Append(D.discounts,
          [code |-> NormalizeCode(code), amount |-> amount,
           usage_limit |-> usage_limit,
           usage_limit_per_user |->
             IF usage_limit_per_user = NULL THEN 1 ELSE usage_limit_per_user,
           used_count |-> 0, is_active |-> TRUE, applies_all |-> applies_all,
           product_ids |-> product_ids, expires_at |-> expires_at])]

\* _order_product_id: the id in a service_code "product:<id>", else NULL
order_product_id(order) ==
  IF order.service_code = "product:1" THEN 1 ELSE NULL

\* the first argument, whatever the second
Min_first(a, b) == a

Min(a, b) == IF a <= b THEN a ELSE b

\* apply_discount_to_order without its checks of the owner, the status and
\* an earlier discount
apply_discount_to_order_unguarded(D, order_id, user_id, code, t) ==
  LET Fail(reason) ==
        [ok |-> FALSE, reason |-> reason, db |-> D, discount |-> 0,
         payable |-> 0]
      id == IdByCode(D.discounts, code)
  IN
  IF order_id \notin OrderIds(D) THEN Fail("invalid_order")
  ELSE IF NormalizeCode(code) = "" THEN Fail("bad_code")
  ELSE IF id = 0 THEN Fail("unknown")
  ELSE
  LET order == D.orders[order_id]
      discount == D.discounts[id]
      red == RedemptionOf(D.discount_redemptions, id, user_id)
      existing_uses == IF red = 0 THEN 0
                       ELSE D.discount_redemptions[red].times_used
      discount_value == Min(Max(discount.amount, 0),
                            Max(order.amount_total, 0))
      D1 == [D EXCEPT !.orders[order_id].discount_id = id,
                      !.orders[order_id].discount_code = discount.code,
                      !.orders[order_id].discount_amount = discount_value]
      D2 == IF red # 0
            THEN [D1 EXCEPT !.discount_redemptions[red].times_used =
                               existing_uses + 1]
            ELSE [D1 EXCEPT !.discount_redemptions =
                    Append(D1.discount_redemptions,
                           [promo_id |-> id, user_id |-> user_id,
                            amount |-> discount_value, times_used |-> 1])]
  IN
  IF ~discount.is_active THEN Fail("inactive")
  ELSE IF discount.amount <= 0 THEN Fail("bad_amount")
  ELSE IF discount.usage_limit # 0
          /\ discount.used_count >= discount.usage_limit
  THEN Fail("limit_reached")
  ELSE IF Expired(discount, t) THEN Fail("expired")
  ELSE IF order_product_id(order) = NULL THEN Fail("not_a_product")
  ELSE IF ~discount.applies_all /\ discount.product_ids # {}
          /\ order_product_id(order) \notin discount.product_ids
  THEN Fail("not_eligible")
  ELSE IF existing_uses >= PerUserLimit(discount)
  THEN Fail("user_limit_reached")
  ELSE [ok |-> TRUE, reason |-> "", discount |-> discount_value,
        payable |-> Max(order.amount_total - discount_value, 0),
        db |-> [D2 EXCEPT !.discounts[id].used_count =
                             discount.used_count + 1]]

apply_discount_to_order(D, order_id, user_id, code, t) ==
  LET Fail(reason) ==
        [ok |-> FALSE, reason |-> reason, db |-> D, discount |-> 0,
         payable |-> 0]
      id == IdByCode(D.discounts, code)
  IN
  IF order_id \notin OrderIds(D) \/ D.orders[order_id].user_id # user_id
  THEN Fail("invalid_order")
  ELSE IF D.orders[order_id].status # "AWAITING_PAYMENT"
  THEN Fail("bad_status")
  ELSE IF D.orders[order_id].discount_code # "" THEN Fail("already_applied")
  ELSE IF NormalizeCode(code) = "" THEN Fail("bad_code")
  ELSE IF id = 0 THEN Fail("unknown")
  ELSE
  LET order == D.orders[order_id]
      discount == D.discounts[id]
      red == RedemptionOf(D.discount_redemptions, id, user_id)
      existing_uses == IF red = 0 THEN 0
                       ELSE D.discount_redemptions[red].times_used
      discount_value == Min(Max(discount.amount, 0),
                            Max(order.amount_total, 0))
      D1 == [D EXCEPT !.orders[order_id].discount_id = id,
                      !.orders[order_id].discount_code = discount.code,
                      !.orders[order_id].discount_amount = discount_value]
      D2 == IF red # 0
            THEN [D1 EXCEPT !.discount_redemptions[red].times_used =
                               existing_uses + 1]
            ELSE [D1 EXCEPT !.discount_redemptions =
                    Append(D1.discount_redemptions,
                           [promo_id |-> id, user_id |-> user_id,
                            amount |-> discount_value, times_used |-> 1])]
  IN
  IF ~discount.is_active THEN Fail("inactive")
  ELSE IF discount.amount <= 0 THEN Fail("bad_amount")
  ELSE IF discount.usage_limit # 0
          /\ discount.used_count >= discount.usage_limit
  THEN Fail("limit_reached")
  ELSE IF Expired(discount, t) THEN Fail("expired")
  ELSE IF order_product_id(order) = NULL THEN Fail("not_a_product")
  ELSE IF ~discount.applies_all /\ discount.product_ids # {}
          /\ order_product_id(order) \notin discount.product_ids
  THEN Fail("not_eligible")
  ELSE IF existing_uses >= PerUserLimit(discount)
  THEN Fail("user_limit_reached")
  ELSE [ok |-> TRUE, reason |-> "", discount |-> discount_value,
        payable |-> Max(order.amount_total - discount_value, 0),
        db |-> [D2 EXCEPT !.discounts[id].used_count =
                             discount.used_count + 1]]

(* ------------------------------ states -------------------------------- *)
\* the orders table before any INSERT, under the default ORDER_ID_MIN_VALUE
NoSequence == [seq |-> NULL, ids |-> <<>>, floor |-> ORDER_ID_MIN_VALUE]

NoCall ==
  [op |-> "none", user_id |-> 0, order_id |-> 0, delta |-> 0, arg |-> "",
   ret |-> 0, balance |-> 0]

\* the database after init_db, before any update reaches the bot
InitDb ==
  /\ users = <<>>
  /\ wallet_tx = <<>>
  /\ orders = <<>>
  /\ fsm = [u \in UserIds |-> NoData]
  /\ now = 0
  /\ paid_before = {}
  /\ last = NoCall
  /\ running = Idle
  /\ coupons = <<>>
  /\ coupon_redemptions = <<>>
  /\ discounts = <<>>
  /\ discount_redemptions = <<>>
  /\ order_seq = NoSequence

Init == InitDb /\ cap = [orders |-> MaxOrders, tx |-> MaxTx]

\* write back the database and FSM a handler leaves behind
CommitWith(D, F, call) ==
  /\ Len(D.wallet_tx) <= cap.tx
  /\ users' = D.users
  /\ wallet_tx' = D.wallet_tx
  /\ orders' = D.orders
  /\ coupons' = D.coupons
  /\ coupon_redemptions' = D.coupon_redemptions
  /\ discounts' = D.discounts
  /\ discount_redemptions' = D.discount_redemptions
  /\ fsm' = F
  /\ paid_before' = paid_before \cup
        {i \in OrderIds(D): D.orders[i].status \in PAID_STATUSES}
  /\ last' = call
  /\ UNCHANGED <<now, cap, running, order_seq>>

\* a handler: no direct call is recorded
Commit(D, F) == CommitWith(D, F, NoCall)

\* the guard the cart callbacks share: the caller's own order, awaiting payment
OwnAwaiting(u, o) ==
  /\ o \in DOMAIN orders
  /\ orders[o].user_id = u
  /\ orders[o].status = "AWAITING_PAYMENT"

(* --------------------------- bot handlers ----------------------------- *)
on_start(u) ==
  Commit(ensure_user(DB, u), Clear(fsm, u))

create_order_and_confirm(u, price, cashback_percent) ==
  /\ Len(orders) < cap.orders
  /\ Commit(create_order(ensure_user(DB, u), u, price, "CATALOG",
                         cashback_percent, price <= 0, now).db, fsm)

on_ai_team_email(u, amount) ==
  /\ Len(orders) < cap.orders
  /\ amount > 0
  /\ Commit(create_order(ensure_user(DB, u), u, amount, "AI", 0, FALSE,
                         now).db, Clear(fsm, u))

on_request_text(u) ==
  /\ Len(orders) < cap.orders
  /\ LET r == create_order(ensure_user(DB, u), u, 0, "CATALOG_REQUEST", 0,
                           TRUE, now)
         D1 == set_order_payment_type(r.db, r.oid, "REQUEST")
     IN Commit(set_order_status(D1, r.oid, "IN_PROGRESS"), fsm)

cb_cart_paycard(u, o) ==
  /\ OwnAwaiting(u, o)
  /\ Commit(set_order_payment_type(DB, o, "CARD"),
            [fsm EXCEPT ![u].order_receipt_for = o,
                        ![u].state = "wait_card_receipt"])

cb_receipt_confirm(u, o) ==
  /\ fsm[u].order_receipt_for = o
  /\ o # 0
  /\ IF ~(o \in DOMAIN orders /\ orders[o].user_id = u)
     THEN Commit(DB, Clear(fsm, u))
     ELSE Commit(set_order_status(DB, o, "PENDING_CONFIRM"), Clear(fsm, u))

cb_cart_paywallet(u, o) ==
  /\ OwnAwaiting(u, o)
  /\ users[u] >= orders[o].amount_total
  /\ Commit(DB, [fsm EXCEPT ![u].wallet_for = o,
                            ![u].state = "wait_wallet_comment"])

cb_wallet_confirm(u, o) ==
  /\ fsm[u].wallet_for = o
  /\ o # 0
  /\ IF ~OwnAwaiting(u, o)
     THEN Commit(DB, Clear(fsm, u))
     ELSE LET amount == orders[o].amount_total
              r == change_wallet(DB, u, -amount, "DEBIT", "ORDER", o)
              D1 == set_order_wallet_used(r.db, o, amount)
              D2 == set_order_payment_type(D1, o, "WALLET")
          IN /\ users[u] >= amount
             /\ r.ok
             /\ Commit(set_order_status(D2, o, "IN_PROGRESS"), Clear(fsm, u))

cb_cart_payplan(u, o) ==
  /\ OwnAwaiting(u, o)
  /\ orders[o].service_category = "AI"
  /\ ~user_has_delivered_order(DB, u)
  /\ Commit(set_order_payment_type(DB, o, "FIRST_PLAN"),
            [fsm EXCEPT ![u].plan_for = o, ![u].state = "wait_plan_comment"])

cb_plan_confirm(u, o) ==
  /\ fsm[u].plan_for = o
  /\ o # 0
  /\ IF ~OwnAwaiting(u, o) \/ orders[o].service_category # "AI"
     THEN Commit(DB, Clear(fsm, u))
     ELSE Commit(set_order_payment_type(
                   set_order_status(DB, o, "PENDING_PLAN"), o, "FIRST_PLAN"),
                 Clear(fsm, u))

cb_cart_paymix(u, o) ==
  /\ OwnAwaiting(u, o)
  /\ Commit(DB, [fsm EXCEPT ![u].mixed_for = o,
                            ![u].state = "wait_mixed_amount"])

on_mixed_amount(u, amt_wallet) ==
  /\ fsm[u].state = "wait_mixed_amount"
  /\ LET o == fsm[u].mixed_for IN
     IF ~OwnAwaiting(u, o)
     THEN Commit(DB, Clear(fsm, u))
     ELSE LET total == orders[o].amount_total
              r == change_wallet(DB, u, -amt_wallet, "RESERVE", "RESERVE", o)
              D1 == set_order_wallet_reserved(r.db, o, amt_wallet)
          IN /\ ~(amt_wallet <= 0 \/ amt_wallet > total)
             /\ users[u] >= amt_wallet
             /\ r.ok
             /\ Commit(set_order_payment_type(D1, o, "MIXED"),
                       [fsm EXCEPT ![u].order_receipt_for = o,
                                   ![u].state = "wait_card_receipt"])

cb_cart_cancel(u, o) ==
  /\ o \in DOMAIN orders
  /\ orders[o].user_id = u
  /\ orders[o].status \in {"AWAITING_PAYMENT", "PENDING_CONFIRM"}
  /\ LET reserved == orders[o].wallet_reserved_amount
         D1 == IF reserved > 0
               THEN set_order_wallet_reserved(
                      change_wallet(DB, u, reserved, "REFUND", "CANCEL", o).db,
                      o, 0)
               ELSE DB
     IN Commit(set_order_status(D1, o, "CANCELED"), fsm)

(* ------------------------------ sweeper ------------------------------- *)
\* one cycle of expire_loop: the database part (notifications change nothing)
expire_loop ==
  Commit(expire_orders_and_refund(DB, now), fsm)

\* PAYMENT_TIMEOUT_MIN minutes pass
Tick ==
  /\ now < MaxTicks * PAYMENT_TIMEOUT_MIN
  /\ now' = now + PAYMENT_TIMEOUT_MIN
  /\ UNCHANGED <<users, wallet_tx, orders, fsm, paid_before, last, cap,
                 running, coupons, coupon_redemptions, discounts,
                 discount_redemptions, order_seq>>

(* ---------------------------- admin panel ----------------------------- *)
\* the refunds update_order makes after a change to REJECTED
RejectRefund(D, order_id) ==
  LET updated == D.orders[order_id]
      user_id == updated.user_id
      reserved_amount == updated.wallet_reserved_amount
      used_amount == updated.wallet_used_amount
      total_amount == updated.amount_total
      card_part == Max(total_amount - reserved_amount - used_amount, 0)
      D1 == IF reserved_amount > 0
            THEN set_order_wallet_reserved(
                   change_wallet(D, user_id, reserved_amount, "REFUND",
                                 "REJECT", order_id).db, order_id, 0)
            ELSE D
      D2 == IF used_amount > 0
            THEN set_order_wallet_used(
                   change_wallet(D1, user_id, used_amount, "REFUND",
                                 "REJECT", order_id).db, order_id, 0)
            ELSE D1
  IN IF card_part > 0
     THEN change_wallet(D2, user_id, card_part, "CREDIT", "CARD_REFUND",
                        order_id).db
     ELSE D2

\* update_order with action = "status"
update_order_status(D, order_id, status_value) ==
  LET order == D.orders[order_id]
      original_status == order.status
      plan_approval == status_value = "PLAN_CONFIRMED"
      new_status == IF status_value \in {"APPROVED", "PLAN_CONFIRMED"}
                    THEN "IN_PROGRESS" ELSE status_value
      status_changed == original_status # new_status
      D1 == IF status_changed
            THEN set_order_status(D, order_id, new_status) ELSE D
      D2 == IF status_changed /\ new_status \in PAID_STATUSES
               /\ order.wallet_reserved_amount > 0
            THEN set_order_wallet_used(
                   set_order_wallet_reserved(D1, order_id, 0), order_id,
                   order.wallet_used_amount + order.wallet_reserved_amount)
            ELSE D1
  IN IF plan_approval /\ original_status # "PENDING_PLAN" THEN D
     ELSE IF status_changed /\ ~plan_approval /\ new_status = "REJECTED"
          THEN RejectRefund(D2, order_id)
          ELSE D2

update_order(o, status_value) ==
  /\ o \in DOMAIN orders
  /\ status_value \in ORDER_STATUS_LABELS
  /\ Commit(update_order_status(DB, o, status_value), fsm)

\* update_order with action = "plan_confirm"
update_order_plan_confirm(o) ==
  /\ o \in DOMAIN orders
  /\ orders[o].status = "PENDING_PLAN"
  /\ Commit(set_order_status(DB, o, "IN_PROGRESS"), fsm)

\* the wallet_tx type and the signed delta adjust_wallet derives from the form
AdjustTxType(action) ==
  CASE action = "debit" -> "DEBIT"
    [] action = "refund" -> "REFUND"
    [] action = "reserve" -> "RESERVE"
    [] OTHER -> "CREDIT"

AdjustDelta(action, amount) == IF action = "debit" THEN -amount ELSE amount

adjust_wallet(u, action, amount) ==
  /\ u \in DOMAIN users
  /\ amount > 0
  /\ LET r == change_wallet(DB, u, AdjustDelta(action, amount),
                            AdjustTxType(action), "ADMIN", 0)
     IN Commit(r.db, fsm)

\* the buttons of the bot's admin keyboard that write a status
AdminActions == {"approve", "reject", "delivered"}

\* the Persian text on_admin_action stores as the status, by button
AdminStatusText(action) ==
  CASE action = "approve" -> "payment approved (fa)"
    [] action = "reject" -> "rejected, needs follow-up (fa)"
    [] OTHER -> "delivered (fa)"

\* the admin:<action>:<id> callback: a bare UPDATE of orders.status
on_admin_action(o, action) ==
  /\ o \in DOMAIN orders
  /\ Commit([DB EXCEPT !.orders[o].status = AdminStatusText(action)], fsm)

(* ------------------------- the whole program -------------------------- *)
Next ==
  \/ \E u \in UserIds: on_start(u)
  \/ \E u \in UserIds, p \in Prices, c \in CashbackPercents:
       create_order_and_confirm(u, p, c)
  \/ \E u \in UserIds, p \in Prices: on_ai_team_email(u, p)
  \/ \E u \in UserIds: on_request_text(u)
  \/ \E u \in UserIds, o \in DOMAIN orders: cb_cart_paycard(u, o)
  \/ \E u \in UserIds, o \in DOMAIN orders: cb_receipt_confirm(u, o)
  \/ \E u \in UserIds, o \in DOMAIN orders: cb_cart_paywallet(u, o)
  \/ \E u \in UserIds, o \in DOMAIN orders: cb_wallet_confirm(u, o)
  \/ \E u \in UserIds, o \in DOMAIN orders: cb_cart_payplan(u, o)
  \/ \E u \in UserIds, o \in DOMAIN orders: cb_plan_confirm(u, o)
  \/ \E u \in UserIds, o \in DOMAIN orders: cb_cart_paymix(u, o)
  \/ \E u \in UserIds, a \in MixedAmounts: on_mixed_amount(u, a)
  \/ \E u \in UserIds, o \in DOMAIN orders: cb_cart_cancel(u, o)
  \/ expire_loop
  \/ Tick
  \/ \E o \in DOMAIN orders, s \in ORDER_STATUS_LABELS: update_order(o, s)
  \/ \E o \in DOMAIN orders: update_order_plan_confirm(o)
  \/ \E u \in UserIds, a \in AdjustActions, m \in AdjustAmounts:
       adjust_wallet(u, a, m)
  \/ \E o \in DOMAIN orders, a \in AdminActions: on_admin_action(o, a)

Spec == Init /\ [][Next]_vars

(* ------------------ direct calls of the db.py functions ---------------- *)
LIFECYCLE_STATUSES == ORDER_STATUS_LABELS \ {"PLAN_CONFIRMED", "APPROVED"}

InitWallet == InitDb /\ cap = [orders |-> 0, tx |-> WalletMaxTx]

InitStatus == InitDb /\ cap = [orders |-> StatusMaxOrders, tx |-> StatusMaxTx]

call_create_order(u, amount_total, cashback_percent, allow_free) ==
  /\ u \in DOMAIN users
  /\ Len(orders) < cap.orders
  /\ LET r == create_order(DB, u, amount_total, "CATALOG", cashback_percent,
                           allow_free, now)
     IN CommitWith(r.db, fsm,
          [NoCall EXCEPT !.op = "create_order", !.user_id = u,
                         !.delta = amount_total, !.ret = r.oid])

call_change_wallet(u, delta, tx_type) ==
  LET r == change_wallet(DB, u, delta, tx_type, "CALL", 0)
  IN CommitWith(r.db, fsm,
       [NoCall EXCEPT !.op = "change_wallet", !.user_id = u, !.delta = delta,
                      !.arg = tx_type, !.ret = IF r.ok THEN 1 ELSE 0])

call_set_order_status(o, status) ==
  CommitWith(set_order_status(DB, o, status), fsm,
    [NoCall EXCEPT !.op = "set_order_status", !.order_id = o, !.arg = status])

call_apply_order_cashback(o) ==
  LET r == apply_order_cashback(DB, o)
  IN CommitWith(r.db, fsm,
       [NoCall EXCEPT !.op = "apply_order_cashback", !.order_id = o,
                      !.ret = r.credited])

\* change_wallet called with every drawn user, delta and type
NextWallet ==
  \/ \E u \in UserIds: on_start(u)
  \/ \E u \in UserIds, d \in ApiDeltas, t \in TX_TYPES:
       call_change_wallet(u, d, t)

SpecWallet == InitWallet /\ [][NextWallet]_vars

\* set_order_status and apply_order_cashback called in every order
NextStatus ==
  \/ \E u \in UserIds: on_start(u)
  \/ \E u \in UserIds, p \in ApiPrices, c \in ApiPercents, f \in BOOLEAN:
       call_create_order(u, p, c, f)
  \/ \E o \in 1..cap.orders, st \in LIFECYCLE_STATUSES:
       call_set_order_status(o, st)
  \/ \E o \in 1..cap.orders: call_apply_order_cashback(o)

SpecStatus == InitStatus /\ [][NextStatus]_vars

(* ------------------- the sweeper and what it reclaims ------------------ *)
InitSweep == InitDb /\ cap = [orders |-> SweepMaxOrders, tx |-> SweepMaxTx]

NextSweep ==
  \/ \E u \in UserIds, p \in Prices, c \in CashbackPercents:
       create_order_and_confirm(u, p, c)
  \/ \E u \in UserIds, m \in AdjustAmounts: adjust_wallet(u, "credit", m)
  \/ \E u \in UserIds, o \in DOMAIN orders: cb_cart_paymix(u, o)
  \/ \E u \in UserIds, a \in MixedAmounts: on_mixed_amount(u, a)
  \/ \E u \in UserIds, o \in DOMAIN orders: cb_cart_cancel(u, o)
  \/ expire_loop
  \/ Tick

SpecSweep == InitSweep /\ [][NextSweep]_vars

(* ------------- the handlers that move an order's status --------------- *)
InitLife == InitDb /\ cap = [orders |-> LifeMaxOrders, tx |-> LifeMaxTx]

NextLife ==
  \/ \E u \in UserIds, p \in LifePrices, c \in CashbackPercents:
       create_order_and_confirm(u, p, c)
  \/ \E u \in UserIds, m \in AdjustAmounts: adjust_wallet(u, "credit", m)
  \/ \E u \in UserIds, o \in DOMAIN orders: cb_cart_paycard(u, o)
  \/ \E u \in UserIds, o \in DOMAIN orders: cb_receipt_confirm(u, o)
  \/ \E u \in UserIds, o \in DOMAIN orders: cb_cart_paywallet(u, o)
  \/ \E u \in UserIds, o \in DOMAIN orders: cb_wallet_confirm(u, o)
  \/ \E u \in UserIds, o \in DOMAIN orders: cb_cart_cancel(u, o)
  \/ \E o \in DOMAIN orders, s \in ORDER_STATUS_LABELS: update_order(o, s)

SpecLife == InitLife /\ [][NextLife]_vars

(* ------------- paying for an order that may carry a discount ---------- *)
call_create_discount(code, amount) ==
  /\ Len(discounts) < MaxPromos
  /\ CommitWith(create_discount(DB, code, amount, 0, 1, TRUE, {}, NULL), fsm,
       [NoCall EXCEPT !.op = "create_discount", !.arg = code,
                      !.delta = amount])

call_apply_discount_to_order(o, u, code) ==
  LET r == apply_discount_to_order(DB, o, u, code, now)
  IN CommitWith(r.db, fsm,
       [NoCall EXCEPT !.op = "apply_discount_to_order", !.order_id = o,
                      !.user_id = u, !.arg = r.reason,
                      !.ret = IF r.ok THEN 1 ELSE 0, !.delta = r.discount,
                      !.balance = r.payable])

InitPay == InitDb /\ cap = [orders |-> PayMaxOrders, tx |-> PayMaxTx]

NextPay ==
  \/ \E u \in UserIds, p \in Prices, c \in CashbackPercents:
       create_order_and_confirm(u, p, c)
  \/ \E u \in UserIds, m \in AdjustAmounts: adjust_wallet(u, "credit", m)
  \/ \E c \in DiscountCodes, a \in DiscountAmounts: call_create_discount(c, a)
  \/ \E u \in UserIds, o \in DOMAIN orders, c \in DiscountCodes:
       call_apply_discount_to_order(o, u, c)
  \/ \E u \in UserIds, o \in DOMAIN orders: cb_cart_paywallet(u, o)
  \/ \E u \in UserIds, o \in DOMAIN orders: cb_wallet_confirm(u, o)
  \/ \E u \in UserIds, o \in DOMAIN orders: cb_cart_paymix(u, o)
  \/ \E u \in UserIds, a \in MixedAmounts: on_mixed_amount(u, a)

SpecPay == InitPay /\ [][NextPay]_vars

(* ------------------ create_order and what it inserts ------------------ *)
call_create_order_text(u, text, cashback_percent, allow_free) ==
  /\ u \in DOMAIN users
  /\ Len(orders) < cap.orders
  /\ LET r == create_order_text(DB, u, text, "CATALOG", cashback_percent,
                                allow_free, now)
     IN CommitWith(r.db, fsm,
          [NoCall EXCEPT !.op = "create_order", !.user_id = u,
                         !.ret = r.oid])

InitCreate == InitDb /\ cap = [orders |-> CreateMaxOrders, tx |-> 0]

NextCreate ==
  \/ \E u \in UserIds: on_start(u)
  \/ \E u \in UserIds, p \in ApiDeltas \cup ApiPrices, c \in ApiPercents, f \in BOOLEAN:
       call_create_order(u, p, c, f)
  \/ \E u \in UserIds, t \in AmountTexts, c \in ApiPercents, f \in BOOLEAN:
       call_create_order_text(u, t, c, f)
  \/ Tick

SpecCreate == InitCreate /\ [][NextCreate]_vars

(* --------------------- discounts and their use ------------------------ *)
call_create_discount_with(code, amount, usage_limit, per_user, applies_all, product_ids) ==
  /\ Len(discounts) < MaxPromos
  /\ CommitWith(create_discount(DB, code, amount, usage_limit, per_user,
                                applies_all, product_ids, NULL), fsm,
       [NoCall EXCEPT !.op = "create_discount", !.arg = code,
                      !.delta = amount])

InitDiscount == InitDb /\ cap = [orders |-> DiscountMaxOrders, tx |-> 0]

NextDiscount ==
  \/ \E u \in UserIds, p \in Prices: create_order_and_confirm(u, p, 0)
  \/ \E u \in UserIds, p \in Prices: on_ai_team_email(u, p)
  \/ \E u \in UserIds, o \in DOMAIN orders: cb_cart_cancel(u, o)
  \/ \E a \in DiscountAmounts, l \in DiscountLimits, pu \in DiscountUserLimits, all \in BOOLEAN, ps \in DiscountProducts:
       call_create_discount_with("save", a, l, pu, all, ps)
  \/ \E u \in DiscountCallers, o \in 1..DiscountMaxOrders, c \in DiscountCodes:
       call_apply_discount_to_order(o, u, c)

SpecDiscount == InitDiscount /\ [][NextDiscount]_vars

(* ----------------------- coupons and their use ------------------------ *)
\* text.strip() over the texts the inputs are drawn from
Strip(text) ==
  CASE text = " gift " -> "gift"
    [] text = " " -> ""
    [] OTHER -> text

cb_profile_coupon(u) ==
  Commit(DB, [fsm EXCEPT ![u].state = "wait_coupon_code",
                         ![u].coupon_code = ""])

on_coupon_code(u, text) ==
  /\ fsm[u].state = "wait_coupon_code"
  /\ IF Strip(text) = ""
     THEN Commit(DB, fsm)
     ELSE Commit(DB, [fsm EXCEPT ![u].coupon_code = Strip(text)])

\* what redeem_coupon returned: success, reason, amount and balance
RedeemCall(u, code, r) ==
  [NoCall EXCEPT !.op = "redeem_coupon", !.user_id = u, !.arg = r.reason,
                 !.ret = IF r.ok THEN 1 ELSE 0, !.delta = r.amount,
                 !.balance = r.balance]

cb_coupon_submit(u) ==
  /\ fsm[u].state = "wait_coupon_code"
  /\ LET code == Strip(fsm[u].coupon_code)
         r == redeem_coupon(ensure_user(DB, u), u, code, now)
     IN IF code = "" THEN Commit(DB, fsm)
        ELSE CommitWith(r.db, IF r.ok THEN Clear(fsm, u) ELSE fsm,
                        RedeemCall(u, code, r))

call_redeem_coupon(u, code) ==
  LET r == redeem_coupon(DB, u, code, now)
  IN CommitWith(r.db, fsm, RedeemCall(u, code, r))

\* POST /coupons/create: an empty code is replaced by a generated one
coupon_create(code, amount, usage_limit, expires_at) ==
  /\ Len(coupons) < MaxPromos
  /\ IF amount <= 0 \/ usage_limit <= 0
     THEN Commit(DB, fsm)
     ELSE Commit(create_coupon(DB,
                   IF NormalizeCode(code) = "" THEN "GENERATED" ELSE code,
                   amount, usage_limit, expires_at, NULL), fsm)

\* POST /coupons/{coupon_id}/toggle
coupon_toggle(coupon_id) ==
  /\ coupon_id \in DOMAIN coupons
  /\ Commit(set_coupon_active(DB, coupon_id, ~coupons[coupon_id].is_active),
            fsm)

call_create_coupon(code, amount, usage_limit, expires_at, per_user) ==
  /\ Len(coupons) < MaxPromos
  /\ CommitWith(create_coupon(DB, code, amount, usage_limit, expires_at,
                              per_user), fsm,
       [NoCall EXCEPT !.op = "create_coupon", !.arg = code, !.delta = amount])

InitCoupon == InitDb /\ cap = [orders |-> 0, tx |-> CouponMaxTx]

NextCoupon ==
  \/ \E u \in UserIds: cb_profile_coupon(u)
  \/ \E u \in UserIds, t \in CouponTexts: on_coupon_code(u, t)
  \/ \E u \in UserIds: cb_coupon_submit(u)
  \/ \E u \in UserIds, c \in CouponTexts: call_redeem_coupon(u, c)
  \/ \E c \in CouponTexts, a \in CouponAmounts, l \in CouponLimits \ {0}, e \in CouponExpiries:
       coupon_create(c, a, l, e)
  \/ \E c \in CouponTexts, a \in CouponAmounts, l \in CouponLimits, e \in CouponExpiries, pu \in CouponUserLimits:
       call_create_coupon(c, a, l, e, pu)
  \/ \E i \in DOMAIN coupons: coupon_toggle(i)
  \/ Tick

SpecCoupon == InitCoupon /\ [][NextCoupon]_vars

(* ------------- what rejection and cancellation pay back --------------- *)
\* every way of paying the bot offers, then the customer's cancellation or
\* the staff's rejection; PENDING_CONFIRM is entered by a submitted receipt
InitRefund == InitDb /\ cap = [orders |-> RefundMaxOrders, tx |-> RefundMaxTx]

NextRefund ==
  \/ \E u \in UserIds, p \in Prices, c \in CashbackPercents:
       create_order_and_confirm(u, p, c)
  \/ \E u \in UserIds, m \in AdjustAmounts: adjust_wallet(u, "credit", m)
  \/ \E u \in UserIds, o \in DOMAIN orders: cb_cart_paycard(u, o)
  \/ \E u \in UserIds, o \in DOMAIN orders: cb_receipt_confirm(u, o)
  \/ \E u \in UserIds, o \in DOMAIN orders: cb_cart_paywallet(u, o)
  \/ \E u \in UserIds, o \in DOMAIN orders: cb_wallet_confirm(u, o)
  \/ \E u \in UserIds, o \in DOMAIN orders: cb_cart_paymix(u, o)
  \/ \E u \in UserIds, a \in MixedAmounts: on_mixed_amount(u, a)
  \/ \E u \in UserIds, o \in DOMAIN orders: cb_cart_cancel(u, o)
  \/ \E o \in DOMAIN orders: update_order(o, "REJECTED")

SpecRefund == InitRefund /\ [][NextRefund]_vars

(* ------- the bot process and the admin-panel process, stepwise -------- *)
\* The bot (its handlers and the sweeper share one event loop and run their
\* database calls without awaiting in between) and the admin panel (its own
\* process) each execute one handler at a time; db_execute opens a
\* connection and commits per statement, so the two processes interleave
\* between any two statements.  An instruction is one statement with the
\* local values the handler has computed so far.
Ins ==
  [op |-> "", handler |-> "", u |-> 0, o |-> 0, n |-> 0, m |-> 0, typ |-> "",
   note |-> "", st |-> "", prev |-> "", skip |-> 0]

\* change_wallet(u, delta, typ, note, o); skip: the statements that follow
\* in the caller only when it returns True
CwIns(handler, u, delta, typ, note, o, skip) ==
  [Ins EXCEPT !.op = "cw_read", !.handler = handler, !.u = u, !.n = delta,
              !.typ = typ, !.note = note, !.o = o, !.skip = skip]

\* set_order_wallet_reserved / set_order_wallet_used (o, n)
SetIns(op, handler, o, n) ==
  [Ins EXCEPT !.op = op, !.handler = handler, !.o = o, !.n = n]

\* set_order_status(o, st)
SosIns(handler, o, st) ==
  [Ins EXCEPT !.op = "sos_prev", !.handler = handler, !.o = o, !.st = st]

\* the statements of one row of the sweeper's loop and of cb_cart_cancel:
\* refund what the snapshot row says is reserved, then set the status
Release(handler, row, o, st, note) ==
  (IF row.wallet_reserved_amount > 0
   THEN <<CwIns(handler, row.user_id, row.wallet_reserved_amount, "REFUND",
                note, o, 0),
          SetIns("set_reserved", handler, o, 0)>>
   ELSE <<>>) \o <<SosIns(handler, o, st)>>

RECURSIVE SweepIns(_, _)
SweepIns(D, ids) ==
  IF ids = <<>> THEN <<>>
  ELSE Release("expire_loop", D.orders[Head(ids)], Head(ids), "EXPIRED",
               "EXPIRE") \o SweepIns(D, Tail(ids))

\* the refunds of update_order after REJECTED, from the row read back
RejectIns(row, o) ==
  LET card_part == Max(row.amount_total - row.wallet_reserved_amount
                         - row.wallet_used_amount, 0)
  IN (IF row.wallet_reserved_amount > 0
      THEN <<CwIns("update_order", row.user_id, row.wallet_reserved_amount,
                   "REFUND", "REJECT", o, 0),
             SetIns("set_reserved", "update_order", o, 0)>>
      ELSE <<>>)
     \o (IF row.wallet_used_amount > 0
         THEN <<CwIns("update_order", row.user_id, row.wallet_used_amount,
                      "REFUND", "REJECT", o, 0),
                SetIns("set_used", "update_order", o, 0)>>
         ELSE <<>>)
     \o (IF card_part > 0
         THEN <<CwIns("update_order", row.user_id, card_part, "CREDIT",
                      "CARD_REFUND", o, 0)>>
         ELSE <<>>)

\* one statement: the database it leaves, the statements it puts in front
\* of the rest of the handler, and how many of the rest it cancels
Exec(D, i) ==
  LET Same == [db |-> D, push |-> <<>>, drop |-> 0] IN
  CASE i.op = "cw_read" ->
         IF i.u \notin DOMAIN D.users \/ Overdrawn(D.users[i.u] + i.n)
         THEN [Same EXCEPT !.drop = i.skip]
         ELSE [Same EXCEPT !.push = <<[i EXCEPT !.op = "cw_update",
                                               !.m = D.users[i.u] + i.n]>>]
    [] i.op = "cw_update" ->
         [Same EXCEPT !.db = [D EXCEPT !.users[i.u] = i.m],
                      !.push = <<[i EXCEPT !.op = "cw_insert"]>>]
    [] i.op = "cw_insert" ->
         [Same EXCEPT !.db = [D EXCEPT !.wallet_tx = Append(D.wallet_tx,
                                 TxRow(i.u, i.o, i.n, i.typ, i.note))]]
    [] i.op = "set_reserved" ->
         [Same EXCEPT !.db = set_order_wallet_reserved(D, i.o, i.n)]
    [] i.op = "set_used" ->
         [Same EXCEPT !.db = set_order_wallet_used(D, i.o, i.n)]
    [] i.op = "sos_prev" ->
         [Same EXCEPT !.push = <<[i EXCEPT !.op = "sos_update",
                                          !.prev = D.orders[i.o].status]>>]
    [] i.op = "sos_update" ->
         [Same EXCEPT !.db = [D EXCEPT !.orders[i.o].status = i.st],
                      !.push = <<[i EXCEPT !.op = "sos_updated"]>>]
    [] i.op = "sos_updated" ->
         IF /\ i.prev # D.orders[i.o].status
            /\ D.orders[i.o].status \in PAID_STATUSES
         THEN [Same EXCEPT !.push = <<[i EXCEPT !.op = "cb_get"]>>]
         ELSE Same
    [] i.op = "cb_get" ->
         LET order == D.orders[i.o]
             remaining == Max(CashbackTotal(order)
                                - order.cashback_applied_amount, 0)
         IN IF Max(order.cashback_percent, 0) <= 0 \/ remaining <= 0
            THEN Same
            ELSE [Same EXCEPT !.push =
                    <<CwIns(i.handler, order.user_id, remaining, "CREDIT",
                            "CASHBACK", i.o, 1),
                      SetIns("cb_mark", i.handler, i.o, CashbackTotal(order))>>]
    [] i.op = "cb_mark" ->
         [Same EXCEPT !.db = [D EXCEPT
                                !.orders[i.o].cashback_applied_amount = i.n]]
    [] i.op = "uo_updated" ->
         [Same EXCEPT !.push = RejectIns(D.orders[i.o], i.o)]
    [] i.op = "mx_get_user" ->
         IF i.n <= 0 \/ i.n > i.m \/ D.users[i.u] < i.n
         THEN [Same EXCEPT !.drop = i.skip]
         ELSE Same
    [] i.op = "mx_finish" ->
         [Same EXCEPT !.db = set_order_payment_type(D, i.o, "MIXED")]
    [] OTHER -> Same

\* the handler of process p goes on with rest
Continue(D, F, p, rest) ==
  /\ Len(D.wallet_tx) <= cap.tx
  /\ users' = D.users
  /\ wallet_tx' = D.wallet_tx
  /\ orders' = D.orders
  /\ coupons' = D.coupons
  /\ coupon_redemptions' = D.coupon_redemptions
  /\ discounts' = D.discounts
  /\ discount_redemptions' = D.discount_redemptions
  /\ fsm' = F
  /\ paid_before' = paid_before \cup
        {i \in OrderIds(D): D.orders[i].status \in PAID_STATUSES}
  /\ last' = NoCall
  /\ running' = [running EXCEPT ![p] = rest]
  /\ UNCHANGED <<now, cap, order_seq>>

\* process p executes its next statement, which is one of ops
Step(p, ops) ==
  /\ running[p] # <<>>
  /\ Head(running[p]).op \in ops
  /\ LET i == Head(running[p])
         r == Exec(DB, i)
         rest == Tail(running[p])
         F == IF i.op = "mx_finish"
              THEN [fsm EXCEPT ![i.u].order_receipt_for = i.o,
                               ![i.u].state = "wait_card_receipt"]
              ELSE fsm
     IN Continue(r.db, F, p,
                 r.push \o SubSeq(rest, r.drop + 1, Len(rest)))

change_wallet_step(p) == Step(p, {"cw_read", "cw_update", "cw_insert"})

set_order_status_step(p) ==
  Step(p, {"sos_prev", "sos_update", "sos_updated"})

apply_order_cashback_step(p) == Step(p, {"cb_get", "cb_mark"})

set_order_wallet_step(p) == Step(p, {"set_reserved", "set_used"})

on_mixed_amount_step == Step("bot", {"mx_get_user", "mx_finish"})

update_order_step == Step("admin", {"uo_updated"})

\* a handler of the bot that runs to its end before the next update
BotHandler(A) == running.bot = <<>> /\ A

\* on_mixed_amount up to its get_order
on_mixed_amount_begin(u, amt_wallet) ==
  /\ running.bot = <<>>
  /\ fsm[u].state = "wait_mixed_amount"
  /\ LET o == fsm[u].mixed_for IN
     IF ~OwnAwaiting(u, o)
     THEN Continue(DB, Clear(fsm, u), "bot", <<>>)
     ELSE Continue(DB, fsm, "bot",
            <<[Ins EXCEPT !.op = "mx_get_user", !.handler = "on_mixed_amount",
                          !.u = u, !.o = o, !.n = amt_wallet,
                          !.m = orders[o].amount_total, !.skip = 3],
              CwIns("on_mixed_amount", u, -amt_wallet, "RESERVE", "RESERVE",
                    o, 2),
              SetIns("set_reserved", "on_mixed_amount", o, amt_wallet),
              [Ins EXCEPT !.op = "mx_finish", !.handler = "on_mixed_amount",
                          !.u = u, !.o = o]>>)

\* cb_cart_cancel up to its get_order
cb_cart_cancel_begin(u, o) ==
  /\ running.bot = <<>>
  /\ o \in DOMAIN orders
  /\ orders[o].user_id = u
  /\ orders[o].status \in {"AWAITING_PAYMENT", "PENDING_CONFIRM"}
  /\ Continue(DB, fsm, "bot",
              Release("cb_cart_cancel", orders[o], o, "CANCELED", "CANCEL"))

\* expire_orders_and_refund up to its SELECT
expire_loop_begin ==
  /\ running.bot = <<>>
  /\ ExpiredSelection(DB, now) # <<>>
  /\ Continue(DB, fsm, "bot", SweepIns(DB, ExpiredSelection(DB, now)))

\* adjust_wallet up to its get_user
adjust_wallet_begin(u, action, amount) ==
  /\ running.admin = <<>>
  /\ u \in DOMAIN users
  /\ amount > 0
  /\ Continue(DB, fsm, "admin",
              <<CwIns("adjust_wallet", u, AdjustDelta(action, amount),
                      AdjustTxType(action), "ADMIN", 0, 0)>>)

\* update_order with action = "status", up to its get_order
update_order_begin(o, status_value) ==
  /\ running.admin = <<>>
  /\ o \in DOMAIN orders
  /\ status_value \in ORDER_STATUS_LABELS
  /\ LET order == orders[o]
         plan_approval == status_value = "PLAN_CONFIRMED"
         new_status == IF status_value \in {"APPROVED", "PLAN_CONFIRMED"}
                       THEN "IN_PROGRESS" ELSE status_value
     IN /\ ~(plan_approval /\ order.status # "PENDING_PLAN")
        /\ order.status # new_status
        /\ Continue(DB, fsm, "admin",
             <<SosIns("update_order", o, new_status)>>
             \o (IF new_status \in PAID_STATUSES
                    /\ order.wallet_reserved_amount > 0
                 THEN <<SetIns("set_reserved", "update_order", o, 0),
                        SetIns("set_used", "update_order", o,
                               order.wallet_used_amount
                                 + order.wallet_reserved_amount)>>
                 ELSE <<>>)
             \o (IF ~plan_approval /\ new_status = "REJECTED"
                 THEN <<SetIns("uo_updated", "update_order", o, 0)>>
                 ELSE <<>>))

InitConc == InitDb /\ cap = [orders |-> ConcMaxOrders, tx |-> ConcMaxTx]

NextConc ==
  \/ \E u \in UserIds, p \in Prices, c \in CashbackPercents:
       BotHandler(create_order_and_confirm(u, p, c))
  \/ \E u \in UserIds, o \in DOMAIN orders: BotHandler(cb_cart_paymix(u, o))
  \/ \E u \in UserIds, a \in ConcMixedAmounts: on_mixed_amount_begin(u, a)
  \/ on_mixed_amount_step
  \/ \E u \in UserIds, o \in DOMAIN orders: cb_cart_cancel_begin(u, o)
  \/ expire_loop_begin
  \/ \E u \in UserIds, a \in ConcAdjustActions, m \in AdjustAmounts:
       adjust_wallet_begin(u, a, m)
  \/ \E o \in DOMAIN orders, s \in ConcStatuses: update_order_begin(o, s)
  \/ update_order_step
  \/ \E p \in {"bot", "admin"}: change_wallet_step(p)
  \/ \E p \in {"bot", "admin"}: set_order_status_step(p)
  \/ \E p \in {"bot", "admin"}: apply_order_cashback_step(p)
  \/ \E p \in {"bot", "admin"}: set_order_wallet_step(p)
  \/ Tick

SpecConc == InitConc /\ [][NextConc]_vars

(* ------- a wallet payment meeting a status change from the panel ------- *)
\* the statuses the panel sets while the customer pays
CashStatuses == {"IN_PROGRESS", "DELIVERED"}

\* cb_wallet_confirm up to its get_order and get_user
cb_wallet_confirm_begin(u, o) ==
  /\ running.bot = <<>>
  /\ fsm[u].wallet_for = o
  /\ o # 0
  /\ IF ~OwnAwaiting(u, o)
     THEN Continue(DB, Clear(fsm, u), "bot", <<>>)
     ELSE LET amount == orders[o].amount_total IN
          /\ users[u] >= amount
          /\ Continue(DB, fsm, "bot",
               <<CwIns("cb_wallet_confirm", u, -amount, "DEBIT", "ORDER", o, 4),
                 SetIns("set_used", "cb_wallet_confirm", o, amount),
                 [Ins EXCEPT !.op = "wc_payment_type",
                             !.handler = "cb_wallet_confirm", !.u = u, !.o = o],
                 SosIns("cb_wallet_confirm", o, "IN_PROGRESS"),
                 [Ins EXCEPT !.op = "wc_finish",
                             !.handler = "cb_wallet_confirm", !.u = u, !.o = o]>>)

\* set_order_payment_type(order_id, "WALLET"), and the end of the handler
\* with its state.clear()
cb_wallet_confirm_step ==
  /\ running.bot # <<>>
  /\ LET i == Head(running.bot) IN
     /\ i.op \in {"wc_payment_type", "wc_finish"}
     /\ IF i.op = "wc_payment_type"
        THEN Continue(set_order_payment_type(DB, i.o, "WALLET"), fsm, "bot",
                      Tail(running.bot))
        ELSE Continue(DB, Clear(fsm, i.u), "bot", Tail(running.bot))

InitCash == InitDb /\ cap = [orders |-> CashMaxOrders, tx |-> CashMaxTx]

NextCash ==
  \/ \E u \in UserIds, p \in Prices, c \in CashbackPercents:
       BotHandler(create_order_and_confirm(u, p, c))
  \/ \E u \in UserIds, m \in AdjustAmounts: adjust_wallet_begin(u, "credit", m)
  \/ \E u \in UserIds, o \in DOMAIN orders: BotHandler(cb_cart_paywallet(u, o))
  \/ \E u \in UserIds, o \in DOMAIN orders: cb_wallet_confirm_begin(u, o)
  \/ cb_wallet_confirm_step
  \/ \E o \in DOMAIN orders, s \in CashStatuses: update_order_begin(o, s)
  \/ \E p \in {"bot", "admin"}: change_wallet_step(p)
  \/ \E p \in {"bot", "admin"}: set_order_status_step(p)
  \/ \E p \in {"bot", "admin"}: apply_order_cashback_step(p)
  \/ \E p \in {"bot", "admin"}: set_order_wallet_step(p)

SpecCash == InitCash /\ [][NextCash]_vars

(* --------------- several customers redeeming one coupon --------------- *)
\* Each update is handled in a task of its own on the bot's event loop, and a
\* task gives way to the others only at an await.  cb_coupon_submit awaits
\* state.get_data() first; ensure_user and redeem_coupon then run without an
\* await in between, then the handler awaits state.clear().  running.bot holds
\* the tasks that have read their code and wait to be resumed, in any order.
ShareUserIds == 1..NumShareUsers

cb_coupon_submit_begin(u) ==
  /\ Len(running.bot) < MaxTasks
  /\ fsm[u].state = "wait_coupon_code"
  /\ IF Strip(fsm[u].coupon_code) = ""
     THEN Continue(DB, fsm, "bot", running.bot)
     ELSE Continue(DB, fsm, "bot",
            Append(running.bot,
              [Ins EXCEPT !.op = "redeem_coupon",
                          !.handler = "cb_coupon_submit", !.u = u,
                          !.note = Strip(fsm[u].coupon_code)]))

cb_coupon_submit_resume(k) ==
  /\ k \in DOMAIN running.bot
  /\ running.bot[k].op = "redeem_coupon"
  /\ LET i == running.bot[k]
         r == redeem_coupon(ensure_user(DB, i.u), i.u, i.note, now)
         rest == SubSeq(running.bot, 1, k - 1)
                   \o SubSeq(running.bot, k + 1, Len(running.bot))
     IN Continue(r.db, IF r.ok THEN Clear(fsm, i.u) ELSE fsm, "bot", rest)

InitShare ==
  /\ users = <<>>
  /\ wallet_tx = <<>>
  /\ orders = <<>>
  /\ fsm = [u \in ShareUserIds |-> NoData]
  /\ now = 0
  /\ paid_before = {}
  /\ last = NoCall
  /\ running = Idle
  /\ coupons = <<>>
  /\ coupon_redemptions = <<>>
  /\ discounts = <<>>
  /\ discount_redemptions = <<>>
  /\ order_seq = NoSequence
  /\ cap = [orders |-> 0, tx |-> ShareMaxTx]

NextShare ==
  \/ \E u \in ShareUserIds: cb_profile_coupon(u)
  \/ \E u \in ShareUserIds: on_coupon_code(u, "save")
  \/ \E u \in ShareUserIds: cb_coupon_submit_begin(u)
  \/ \E k \in 1..MaxTasks: cb_coupon_submit_resume(k)
  \/ \E l \in CouponLimits \ {0}: coupon_create("save", 2, l, NULL)
  \/ \E l \in CouponLimits, pu \in CouponUserLimits:
       call_create_coupon("save", 2, l, NULL, pu)
  \/ \E i \in DOMAIN coupons: coupon_toggle(i)

SpecShare == InitShare /\ [][NextShare]_vars

(* ------------- the sweeper's cycle with its notifications ------------- *)
\* what bot.send_message can do for one notification
SendOutcomes == {"sent", "failed"}

\* the rows expire_orders_and_refund returns, one send pending for each
Notifications(D, sel) ==
  [k \in 1..Len(sel) |->
     [Ins EXCEPT !.op = "send_message", !.handler = "expire_loop",
                 !.o = sel[k], !.u = D.orders[sel[k]].user_id,
                 !.st = "pending"]]

HasPending(q) == \E k \in 1..Len(q): q[k].st = "pending"

\* the position of the for loop over expired
FirstPending(q) ==
  CHOOSE k \in 1..Len(q):
    q[k].st = "pending" /\ \A j \in 1..(k - 1): q[j].st # "pending"

\* a variant in which a failed send leaves the for loop
Sent_abort(q, k, outcome) ==
  IF outcome = "failed"
  THEN [j \in 1..k |-> IF j = k THEN [q[j] EXCEPT !.st = outcome] ELSE q[j]]
  ELSE [q EXCEPT ![k].st = outcome]

\* try: await bot.send_message(...) except Exception: pass
Sent(q, k, outcome) == [q EXCEPT ![k].st = outcome]

\* expired = expire_orders_and_refund(), up to the first await
expire_loop_cycle ==
  /\ running.bot = <<>>
  /\ Continue(expire_orders_and_refund(DB, now), fsm, "bot",
              Notifications(DB, ExpiredSelection(DB, now)))

\* one pass of the for loop: the send returns or raises
expire_loop_send(outcome) ==
  /\ HasPending(running.bot)
  /\ Continue(DB, fsm, "bot",
              Sent(running.bot, FirstPending(running.bot), outcome))

\* the for loop is over: logging.info, then await asyncio.sleep(30)
expire_loop_sleep ==
  /\ running.bot # <<>>
  /\ ~HasPending(running.bot)
  /\ last' = [NoCall EXCEPT
                !.op = "expire_loop",
                !.ret = Len(running.bot),
                !.delta = Len(SelectSeq(running.bot,
                                        LAMBDA e: e.st = "failed"))]
  /\ running' = [running EXCEPT !.bot = <<>>]
  /\ UNCHANGED <<users, wallet_tx, orders, fsm, now, paid_before, cap,
                 coupons, coupon_redemptions, discounts,
                 discount_redemptions, order_seq>>

InitNotify == InitDb /\ cap = [orders |-> NotifyMaxOrders, tx |-> NotifyMaxTx]

\* the handlers run between the awaits of the sweeper
NextNotify ==
  \/ \E u \in UserIds, p \in Prices, c \in CashbackPercents:
       create_order_and_confirm(u, p, c)
  \/ \E u \in UserIds, m \in AdjustAmounts: adjust_wallet(u, "credit", m)
  \/ \E u \in UserIds, o \in DOMAIN orders: cb_cart_paymix(u, o)
  \/ \E u \in UserIds, a \in MixedAmounts: on_mixed_amount(u, a)
  \/ \E u \in UserIds, o \in DOMAIN orders: cb_cart_cancel(u, o)
  \/ expire_loop_cycle
  \/ \E outcome \in SendOutcomes: expire_loop_send(outcome)
  \/ expire_loop_sleep
  \/ Tick

SpecNotify == InitNotify /\ [][NextNotify]_vars

(* ---------------- the cart and the rows it normalizes ----------------- *)
\* the status label of earlier versions, 'awaiting payment' in Persian
LEGACY_AWAITING_LABEL == "awaiting payment (fa)"

\* the empty string in await_deadline: not NULL, and below every time
EMPTY == -2

\* the rows a database file of an earlier version holds: status TEXT has no
\* default and await_deadline was added by a migration
LegacyStatuses == {"", " ", LEGACY_AWAITING_LABEL, "AWAITING_PAYMENT"}
LegacyDeadlines == {NULL, EMPTY, PAYMENT_TIMEOUT_MIN}

\* COALESCE(TRIM(status), '') IN ('', <label>)
BlankOrLegacy(status) ==
  (IF status = " " THEN "" ELSE status) \in {"", LEGACY_AWAITING_LABEL}

\* await_deadline IS NULL OR await_deadline='' OR await_deadline > now
CartOpen(row, t) ==
  row.await_deadline \in {NULL, EMPTY} \/ row.await_deadline > t

\* the SELECT of list_cart_orders: ids in the order of await_deadline
CartSelection(D, user_id, t) ==
  SortSeq(SelectSeq([i \in 1..Len(D.orders) |-> i],
                    LAMBDA i: /\ D.orders[i].user_id = user_id
                              /\ D.orders[i].status = "AWAITING_PAYMENT"
                              /\ CartOpen(D.orders[i], t)),
          LAMBDA a, b: D.orders[a].await_deadline < D.orders[b].await_deadline)

list_cart_orders(D, user_id, t) ==
  LET D1 == [D EXCEPT !.orders =
               [i \in DOMAIN D.orders |->
                  IF /\ D.orders[i].user_id = user_id
                     /\ BlankOrLegacy(D.orders[i].status)
                     /\ CartOpen(D.orders[i], t)
                  THEN [D.orders[i] EXCEPT !.status = "AWAITING_PAYMENT"]
                  ELSE D.orders[i]]]
      rows == CartSelection(D1, user_id, t)
      missing == {rows[k] : k \in {j \in 1..Len(rows):
                    D1.orders[rows[j]].await_deadline \in {NULL, EMPTY}}}
      D2 == [D1 EXCEPT !.orders =
               [i \in DOMAIN D1.orders |->
                  IF i \in missing
                  THEN [D1.orders[i] EXCEPT
                          !.await_deadline = t + PAYMENT_TIMEOUT_MIN]
                  ELSE D1.orders[i]]]
  IN IF missing = {}
     THEN [rows |-> rows, db |-> D1]
     ELSE [rows |-> CartSelection(D2, user_id, t), db |-> D2]

\* the cart button of the reply keyboard
on_reply_cart(u) ==
  LET r == list_cart_orders(ensure_user(DB, u), u, now)
  IN CommitWith(r.db, fsm, [NoCall EXCEPT !.op = "list_cart_orders",
                                          !.user_id = u,
                                          !.ret = Len(r.rows)])

LegacyOrder(u, status, deadline) ==
  [NewOrder(u, 3, "AI", 0, 0) EXCEPT !.status = status,
                                     !.await_deadline = deadline]

\* the bot starts on a database whose orders table holds legacy rows
InitCart ==
  /\ users = <<>>
  /\ wallet_tx = <<>>
  /\ \E n \in 1..CartMaxOrders:
       orders \in [1..n -> {LegacyOrder(u, s, d): u \in UserIds,
                              s \in LegacyStatuses, d \in LegacyDeadlines}]
  /\ fsm = [u \in UserIds |-> NoData]
  /\ now = 0
  /\ paid_before = {}
  /\ last = NoCall
  /\ running = Idle
  /\ coupons = <<>>
  /\ coupon_redemptions = <<>>
  /\ discounts = <<>>
  /\ discount_redemptions = <<>>
  /\ order_seq = NoSequence
  /\ cap = [orders |-> CartMaxOrders, tx |-> 0]

NextCart ==
  \/ \E u \in UserIds: on_reply_cart(u)
  \/ \E u \in UserIds, p \in Prices, c \in CashbackPercents:
       create_order_and_confirm(u, p, c)
  \/ expire_loop
  \/ Tick

SpecCart == InitCart /\ [][NextCart]_vars

(* ------------------- the ids create_order hands out ------------------- *)
\* the values ORDER_ID_MIN_VALUE is given in the environment of a run
IdFloors == {0, 2, 4}

\* SELECT IFNULL(MAX(id), 0) FROM orders
MaxId(S) ==
  IF S.ids = <<>> THEN 0
  ELSE CHOOSE m \in {S.ids[k]: k \in 1..Len(S.ids)}:
         \A k \in 1..Len(S.ids): S.ids[k] <= m

\* a variant that leaves sqlite_sequence alone
ensure_order_sequence_min_skip(S, min_order_id) == S

\* _ensure_order_sequence_min: the row of sqlite_sequence is inserted or
\* updated alike
ensure_order_sequence_min(S, min_order_id) ==
  LET target == min_order_id IN
  IF target <= 0 THEN S
  ELSE IF MaxId(S) >= target THEN S
  ELSE [S EXCEPT !.seq = target - 1]

ensure_order_id_floor(S) == ensure_order_sequence_min(S, S.floor)

\* the rowid an INSERT into an AUTOINCREMENT table receives: one above the
\* larger of the table's largest id and the seq of sqlite_sequence
NextRowid(S) == Max(MaxId(S), IF S.seq = NULL THEN 0 ELSE S.seq) + 1

\* the INSERT of create_order on the table S, after ensure_order_id_floor
InsertOrderId(S) ==
  LET E == ensure_order_id_floor(S)
      oid == NextRowid(E)
  IN [oid |-> oid,
      seq |-> [E EXCEPT !.seq = oid, !.ids = Append(E.ids, oid)]]

\* a handler that creates an order, in a run with a configured floor
create_order_and_confirm_floor(u, price) ==
  /\ Len(orders) < cap.orders
  /\ LET r == create_order(ensure_user(DB, u), u, price, "CATALOG", 0,
                           FALSE, now)
         i == InsertOrderId(order_seq)
         call == [NoCall EXCEPT !.op = "create_order", !.user_id = u,
                                !.delta = price]
     IN /\ users' = r.db.users
        /\ orders' = r.db.orders
        /\ order_seq' = IF r.oid = NULL THEN order_seq ELSE i.seq
        /\ last' = [call EXCEPT !.ret = IF r.oid = NULL THEN NULL ELSE i.oid,
                                !.order_id = IF r.oid = NULL THEN 0 ELSE r.oid]
        /\ UNCHANGED <<wallet_tx, fsm, now, paid_before, cap, running,
                       coupons, coupon_redemptions, discounts,
                       discount_redemptions>>

\* the process is started again with another ORDER_ID_MIN_VALUE
restart(floor) ==
  /\ floor # order_seq.floor
  /\ order_seq' = [order_seq EXCEPT !.floor = floor]
  /\ last' = NoCall
  /\ UNCHANGED <<users, wallet_tx, orders, fsm, now, paid_before, cap,
                 running, coupons, coupon_redemptions, discounts,
                 discount_redemptions>>

InitIds ==
  /\ users = <<>>
  /\ wallet_tx = <<>>
  /\ orders = <<>>
  /\ fsm = [u \in UserIds |-> NoData]
  /\ now = 0
  /\ paid_before = {}
  /\ last = NoCall
  /\ running = Idle
  /\ coupons = <<>>
  /\ coupon_redemptions = <<>>
  /\ discounts = <<>>
  /\ discount_redemptions = <<>>
  /\ \E floor \in IdFloors: order_seq = [NoSequence EXCEPT !.floor = floor]
  /\ cap = [orders |-> IdMaxOrders, tx |-> 0]

NextIds ==
  \/ \E u \in UserIds, p \in ApiPrices: create_order_and_confirm_floor(u, p)
  \/ \E floor \in IdFloors: restart(floor)
  \/ \E u \in UserIds, o \in DOMAIN orders: cb_cart_cancel(u, o)

SpecIds == InitIds /\ [][NextIds]_vars

(* --------- the first-purchase plan while other orders move on --------- *)
\* the statuses staff give the user's other order in the panel
PlanStatuses == {"DELIVERED", "COMPLETED", "CANCELED"}

InitPlan == InitDb /\ cap = [orders |-> PlanMaxOrders, tx |-> 0]

NextPlan ==
  \/ \E u \in UserIds, p \in Prices: on_ai_team_email(u, p)
  \/ \E u \in UserIds, o \in DOMAIN orders: cb_cart_payplan(u, o)
  \/ \E u \in UserIds, o \in DOMAIN orders: cb_plan_confirm(u, o)
  \/ \E o \in DOMAIN orders, s \in PlanStatuses: update_order(o, s)

SpecPlan == InitPlan /\ [][NextPlan]_vars

(* =============================== claims =============================== *)
\* signed effect of a wallet_tx row on its user's balance
Signed(row) ==
  IF row.type \in {"CREDIT", "REFUND"} THEN row.amount ELSE -row.amount

RECURSIVE LedgerSum(_, _)
LedgerSum(tx, u) ==
  IF tx = <<>> THEN 0
  ELSE (IF Head(tx).user_id = u THEN Signed(Head(tx)) ELSE 0)
       + LedgerSum(Tail(tx), u)

\* rows i of wallet_tx of order o carrying note n
RowsOf(tx, o, n) ==
  {i \in 1..Len(tx): tx[i].order_id = o /\ tx[i].note = n}

RECURSIVE SumRows(_, _)
SumRows(tx, S) ==
  IF S = {} THEN 0
  ELSE LET i == CHOOSE x \in S: TRUE IN tx[i].amount + SumRows(tx, S \ {i})

\* the rows a step appended
NewRows == SubSeq(wallet_tx', Len(wallet_tx) + 1, Len(wallet_tx'))

TERMINAL_STATUSES == {"EXPIRED", "REJECTED", "CANCELED", "COMPLETED"}

\* C1: for every user the stored wallet_balance equals the sum of the user's
\* CREDIT and REFUND rows minus the sum of the DEBIT and RESERVE rows, after
\* any sequence of handlers (the panel's wallet adjustment included).
C1_BalanceIsLedgerProjection ==
  \A u \in DOMAIN users: users[u] = LedgerSum(wallet_tx, u)

\* C2: change_wallet fails (returns False, balance and wallet_tx unchanged)
\* when the user is missing or balance + delta < 0; otherwise it sets the
\* balance to balance + delta and appends exactly one row with amount
\* |delta| and the given type; no balance is ever negative.
C2_ChangeWalletContract ==
  [][last'.op = "change_wallet" =>
       LET u == last'.user_id
           d == last'.delta
       IN /\ \A w \in DOMAIN users': users'[w] >= 0
          /\ IF u \notin DOMAIN users \/ users[u] + d < 0
             THEN /\ last'.ret = 0
                  /\ users' = users
                  /\ wallet_tx' = wallet_tx
             ELSE /\ last'.ret = 1
                  /\ users' = [users EXCEPT ![u] = users[u] + d]
                  /\ Len(wallet_tx') = Len(wallet_tx) + 1
                  /\ SubSeq(wallet_tx', 1, Len(wallet_tx)) = wallet_tx
                  /\ wallet_tx'[Len(wallet_tx')].amount = Abs(d)
                  /\ wallet_tx'[Len(wallet_tx')].type = last'.arg
                  /\ wallet_tx'[Len(wallet_tx')].user_id = u]_vars

\* a debit refused for lack of funds, after an accepted credit
C2_Witness ==
  /\ last.op = "change_wallet"
  /\ last.ret = 0
  /\ last.user_id \in DOMAIN users
  /\ users[last.user_id] + last.delta < 0
  /\ Len(wallet_tx) > 0

\* C3: a user's wallet_balance is never negative, whatever the interleaving
\* of the statements of the change_wallet calls the bot process (handlers
\* and sweeper) and the admin panel have in progress for that user.
C3_BalanceNeverNegative ==
  \A u \in DOMAIN users: users[u] >= 0

\* two change_wallet calls have interleaved: both handlers are finished, the
\* later write has overwritten the earlier one, and the rows logged add up
\* to less than zero while the balance is not negative
C3_Witness ==
  /\ running = Idle
  /\ \E u \in DOMAIN users:
       /\ users[u] >= 0
       /\ LedgerSum(wallet_tx, u) < 0
       /\ \E i, j \in 1..Len(wallet_tx):
            /\ wallet_tx[i].note = "ADMIN" /\ wallet_tx[i].type = "DEBIT"
            /\ wallet_tx[j].note = "RESERVE"

\* C4: once an order is EXPIRED, REJECTED, CANCELED or COMPLETED no handler
\* changes its status.
C4_TerminalIsFinal ==
  [][\A o \in DOMAIN orders:
       orders[o].status \in TERMINAL_STATUSES =>
         orders'[o].status = orders[o].status]_vars

\* the edges of the lifecycle graph
LIFECYCLE_EDGES ==
  ({"AWAITING_PAYMENT"} \X {"PENDING_CONFIRM", "IN_PROGRESS", "PENDING_PLAN",
                            "EXPIRED", "CANCELED"})
  \cup ({"PENDING_CONFIRM", "PENDING_PLAN"} \X {"IN_PROGRESS", "REJECTED"})
  \cup ({"IN_PROGRESS"} \X {"READY_TO_DELIVER", "DELIVERED", "COMPLETED",
                            "REJECTED"})
  \cup {<<"READY_TO_DELIVER", "DELIVERED">>, <<"DELIVERED", "COMPLETED">>}

\* C5: every status change of an order follows an edge of the lifecycle
\* graph; the receipt confirmation moves only AWAITING_PAYMENT orders.
C5_FollowsLifecycle ==
  [][\A o \in DOMAIN orders:
       orders'[o].status # orders[o].status =>
         <<orders[o].status, orders'[o].status>> \in LIFECYCLE_EDGES]_vars

\* the orders the sweeper's SELECT matches in the current state
Due(o) ==
  /\ orders[o].status = "AWAITING_PAYMENT"
  /\ orders[o].await_deadline # NULL
  /\ orders[o].await_deadline <= now

\* what user u has reserved on the orders that are due
RECURSIVE DueReserved(_, _)
DueReserved(u, S) ==
  IF S = {} THEN 0
  ELSE LET o == CHOOSE x \in S: TRUE
       IN (IF Due(o) /\ orders[o].user_id = u
           THEN orders[o].wallet_reserved_amount ELSE 0)
          + DueReserved(u, S \ {o})

\* C6: one complete sweeper run leaves every order that was AWAITING_PAYMENT
\* past its deadline EXPIRED with wallet_reserved_amount 0, has returned the
\* reserved amount to the owner by one REFUND row (no row when nothing was
\* reserved), and leaves every other order untouched.
C6_SweepExpiresAndRefunds ==
  [][expire_loop =>
       /\ DOMAIN orders' = DOMAIN orders
       /\ \A o \in DOMAIN orders:
            orders'[o] = IF Due(o)
                         THEN [orders[o] EXCEPT !.status = "EXPIRED",
                                                !.wallet_reserved_amount = 0]
                         ELSE orders[o]
       /\ DOMAIN users' = DOMAIN users
       /\ \A u \in DOMAIN users:
            users'[u] = users[u] + DueReserved(u, DOMAIN orders)
       /\ SubSeq(wallet_tx', 1, Len(wallet_tx)) = wallet_tx
       /\ Len(NewRows) = Cardinality({o \in DOMAIN orders:
                             Due(o) /\ orders[o].wallet_reserved_amount > 0})
       /\ \A o \in DOMAIN orders:
            Due(o) /\ orders[o].wallet_reserved_amount > 0 =>
              \E i \in 1..Len(NewRows):
                /\ NewRows[i].order_id = o
                /\ NewRows[i].type = "REFUND"
                /\ NewRows[i].amount = orders[o].wallet_reserved_amount
                /\ NewRows[i].user_id = orders[o].user_id]_vars

\* the sweeper has expired an order and refunded its reservation while
\* another order, not yet due, is still awaiting payment
C6_Witness ==
  \E o, q \in DOMAIN orders:
    /\ orders[o].status = "EXPIRED"
    /\ orders[o].wallet_reserved_amount = 0
    /\ \E i \in 1..Len(wallet_tx):
         /\ wallet_tx[i].order_id = o
         /\ wallet_tx[i].note = "EXPIRE"
         /\ wallet_tx[i].amount > 0
    /\ orders[q].status = "AWAITING_PAYMENT"
    /\ orders[q].await_deadline > now

\* C7: a statement of the sweeper leaves alone every order whose status is
\* no longer AWAITING_PAYMENT, that is, every selected order another action
\* has moved since the sweeper's SELECT: the status that action set is not
\* overwritten with EXPIRED.
C7_SweepLeavesChangedOrders ==
  [][(/\ running.bot # <<>>
      /\ Head(running.bot).handler = "expire_loop"
      /\ running'.bot # running.bot)
       => \A o \in DOMAIN orders:
            orders[o].status # "AWAITING_PAYMENT"
              => orders'[o].status = orders[o].status]_vars

\* cashback credited so far for order o
CashbackCredited(tx, o) == SumRows(tx, RowsOf(tx, o, "CASHBACK"))

\* C8: for any sequence of set_order_status calls the cashback credited for
\* an order never exceeds floor(amount_total * cashback_percent / 100); a
\* call whose target equals the current status credits nothing; a second
\* consecutive apply_order_cashback credits 0.
C8_CashbackAtMostOnce ==
  [][/\ \A o \in DOMAIN orders':
          CashbackCredited(wallet_tx', o) <= CashbackTotal(orders'[o])
     /\ (/\ last'.op = "set_order_status"
         /\ last'.order_id \in DOMAIN orders
         /\ orders[last'.order_id].status = last'.arg)
          => wallet_tx' = wallet_tx /\ users' = users
     /\ (/\ last.op = "apply_order_cashback"
         /\ last'.op = "apply_order_cashback"
         /\ last'.order_id = last.order_id)
          => last'.ret = 0 /\ wallet_tx' = wallet_tx /\ users' = users]_vars

\* an order has been credited its whole cashback and has since been moved
\* to a further paid status
C8_Witness ==
  \E o \in DOMAIN orders:
    /\ CashbackTotal(orders[o]) > 0
    /\ CashbackCredited(wallet_tx, o) = CashbackTotal(orders[o])
    /\ orders[o].status = "COMPLETED"
    /\ last.op = "apply_order_cashback"
    /\ last.order_id = o
    /\ last.ret = 0

\* the CASHBACK rows a step appended for order o
NewCashbackRows(o) ==
  {i \in 1..Len(NewRows):
     NewRows[i].order_id = o /\ NewRows[i].note = "CASHBACK"}

\* C9: the first move of an order with cashback_percent > 0 into a paid
\* status credits the owner floor(amount_total * cashback_percent / 100)
\* by one CREDIT row (no row when that is 0) and records it in
\* cashback_applied_amount; a move into any other status credits nothing.
C9_FirstPaidEntryCredits ==
  [][\A o \in DOMAIN orders:
       LET old == orders[o]
           new == orders'[o]
           total == CashbackTotal(old)
           rows == NewCashbackRows(o)
       IN new.status # old.status =>
            IF new.status \in PAID_STATUSES
            THEN (o \notin paid_before /\ old.cashback_percent > 0) =>
                   /\ new.cashback_applied_amount = total
                   /\ Cardinality(rows) = (IF total > 0 THEN 1 ELSE 0)
                   /\ \A i \in rows: /\ NewRows[i].type = "CREDIT"
                                      /\ NewRows[i].amount = total
                                      /\ NewRows[i].user_id = old.user_id
                   /\ users'[old.user_id] - users[old.user_id]
                        = LedgerSum(NewRows, old.user_id)
            ELSE rows = {}]_vars

\* an order paid from the wallet has received its cashback
C9_Witness ==
  \E o \in DOMAIN orders:
    /\ orders[o].status = "IN_PROGRESS"
    /\ orders[o].payment_type = "WALLET"
    /\ orders[o].cashback_applied_amount = 1
    /\ CashbackCredited(wallet_tx, o) = 1

\* C11: a wallet payment of an order awaiting payment debits the payable
\* amount (amount_total - discount_amount) by exactly one DEBIT row, sets
\* wallet_used_amount to it and moves the order to IN_PROGRESS; with a
\* balance below that amount nothing changes.
C11_WalletPaysPayable ==
  [][\A u \in UserIds, o \in DOMAIN orders:
       (cb_wallet_confirm(u, o) /\ OwnAwaiting(u, o)) =>
         LET payable == get_order_payable_amount(orders[o])
             debits == {i \in 1..Len(NewRows): NewRows[i].type = "DEBIT"}
         IN IF users[u] >= payable
            THEN /\ Cardinality(debits) = 1
                 /\ \A i \in debits: /\ NewRows[i].amount = payable
                                      /\ NewRows[i].user_id = u
                                      /\ NewRows[i].order_id = o
                 /\ orders'[o].wallet_used_amount = payable
                 /\ orders'[o].status = "IN_PROGRESS"
            ELSE /\ users' = users
                 /\ wallet_tx' = wallet_tx
                 /\ orders' = orders]_vars

\* C12: a mixed-payment reservation of a succeeds only when a > 0, a is at
\* most the order's payable amount and at most the balance; it then lowers
\* the balance by a through one RESERVE row and sets wallet_reserved_amount
\* to a; otherwise balance, wallet_tx and orders are unchanged.
C12_ReservationWithinPayable ==
  [][\A u \in UserIds, a \in MixedAmounts:
       on_mixed_amount(u, a) =>
         LET o == fsm[u].mixed_for IN
         IF /\ OwnAwaiting(u, o)
            /\ a > 0
            /\ a <= get_order_payable_amount(orders[o])
            /\ a <= users[u]
         THEN /\ users'[u] = users[u] - a
              /\ Len(NewRows) = 1
              /\ NewRows[1] = TxRow(u, o, -a, "RESERVE", "RESERVE")
              /\ orders'[o].wallet_reserved_amount = a
         ELSE /\ users' = users
              /\ wallet_tx' = wallet_tx
              /\ orders' = orders]_vars

\* C13: no order in a paid status (IN_PROGRESS, READY_TO_DELIVER, DELIVERED,
\* COMPLETED) retains a wallet_reserved_amount: on reaching the status the
\* reservation has been zeroed and added to wallet_used_amount.
C13_PaidHasNoReservation ==
  \A o \in DOMAIN orders:
    orders[o].status \in PAID_STATUSES => orders[o].wallet_reserved_amount = 0

\* C14: when staff move an order to REJECTED, the reserved amount r and the
\* used amount u are each returned by a REFUND row and reset to 0, and
\* payable - r - u is credited by one CREDIT row, so the owner's balance rises
\* by exactly the payable amount (amount_total - discount_amount).
C14_RejectRefundsPayable ==
  [][\A o \in DOMAIN orders:
       (update_order(o, "REJECTED") /\ orders[o].status # "REJECTED") =>
         LET u == orders[o].user_id
             r == orders[o].wallet_reserved_amount
             used == orders[o].wallet_used_amount
             payable == get_order_payable_amount(orders[o])
             refunds == {i \in 1..Len(NewRows): NewRows[i].type = "REFUND"}
             credits == {i \in 1..Len(NewRows): NewRows[i].type = "CREDIT"}
         IN /\ orders'[o].status = "REJECTED"
            /\ orders'[o].wallet_reserved_amount = 0
            /\ orders'[o].wallet_used_amount = 0
            /\ Cardinality(refunds)
                 = (IF r > 0 THEN 1 ELSE 0) + (IF used > 0 THEN 1 ELSE 0)
            /\ SumRows(NewRows, refunds) = r + used
            /\ Cardinality(credits) = (IF payable - r - used > 0 THEN 1 ELSE 0)
            /\ SumRows(NewRows, credits) = Max(payable - r - used, 0)
            /\ \A i \in 1..Len(NewRows): /\ NewRows[i].user_id = u
                                         /\ NewRows[i].order_id = o
            /\ users'[u] = users[u] + payable]_vars

\* C15: when a customer cancels an own order in AWAITING_PAYMENT or
\* PENDING_CONFIRM, the reserved and the used amount are each refunded by a
\* REFUND row and reset to 0, and the card part of an order whose receipt was
\* submitted (payable - reserved - used of an order in PENDING_CONFIRM) is
\* credited to the wallet.
C15_CancelMakesWhole ==
  [][\A u \in UserIds, o \in DOMAIN orders:
       (/\ cb_cart_cancel(u, o)
        /\ orders[o].user_id = u
        /\ orders[o].status \in {"AWAITING_PAYMENT", "PENDING_CONFIRM"}) =>
         LET r == orders[o].wallet_reserved_amount
             used == orders[o].wallet_used_amount
             card_part ==
               IF orders[o].status = "PENDING_CONFIRM"
               THEN Max(get_order_payable_amount(orders[o]) - r - used, 0)
               ELSE 0
             refunds == {i \in 1..Len(NewRows): NewRows[i].type = "REFUND"}
             credits == {i \in 1..Len(NewRows): NewRows[i].type = "CREDIT"}
         IN /\ orders'[o].status = "CANCELED"
            /\ orders'[o].wallet_reserved_amount = 0
            /\ orders'[o].wallet_used_amount = 0
            /\ SumRows(NewRows, refunds) = r + used
            /\ SumRows(NewRows, credits) = card_part
            /\ users'[u] = users[u] + r + used + card_part]_vars

\* the tables a call left as they were
TablesUnchanged ==
  /\ users' = users /\ wallet_tx' = wallet_tx /\ orders' = orders
  /\ coupons' = coupons /\ coupon_redemptions' = coupon_redemptions
  /\ discounts' = discounts /\ discount_redemptions' = discount_redemptions

\* a text int() refuses once the separators are gone: no digit in it, or a
\* character that is neither a digit nor a leading sign
NonNumeric(text) ==
  LET body == SelectSeq(text, LAMBDA c: c \notin Separators)
  IN \/ \A i \in 1..Len(body): ~IsDigit(body[i])
     \/ \E i \in 1..Len(body): ~IsDigit(body[i]) /\ ~(i = 1 /\ body[i] \in {"-", "+"})

\* C16: create_order with amount_total <= 0 and allow_free = false, or with
\* an amount that is not a number, returns no order id and leaves every table
\* as it was.
C16_RefusedOrderWritesNothing ==
  [][/\ \A u \in UserIds, p \in ApiDeltas \cup ApiPrices, c \in ApiPercents:
          (call_create_order(u, p, c, FALSE) /\ p <= 0) =>
            (last'.ret = NULL /\ TablesUnchanged)
     /\ \A u \in UserIds, t \in AmountTexts, c \in ApiPercents, f \in BOOLEAN:
          (call_create_order_text(u, t, c, f) /\ NonNumeric(t)) =>
            (last'.ret = NULL /\ TablesUnchanged)]_vars

\* a refused call has been made: with a non-positive amount, after an order
\* was already created
C16_Witness ==
  /\ last.op = "create_order"
  /\ last.ret = NULL
  /\ last.delta < 0
  /\ Len(orders) = 1

\* C17: every order a successful create_order returns is in AWAITING_PAYMENT
\* with await_deadline = creation time + PAYMENT_TIMEOUT_MIN, reserved, used
\* and discount amount 0 and no discount code.
C17_NewOrderShape ==
  [][(last'.op = "create_order" /\ last'.ret # NULL /\ Len(orders') > Len(orders)) =>
       LET o == orders'[last'.ret]
       IN /\ last'.ret = Len(orders')
          /\ o.status = "AWAITING_PAYMENT"
          /\ o.await_deadline = now + PAYMENT_TIMEOUT_MIN
          /\ o.wallet_reserved_amount = 0
          /\ o.wallet_used_amount = 0
          /\ o.discount_amount = 0
          /\ o.discount_code = ""
          /\ o.discount_id = NULL]_vars

\* an order created after the clock moved, by a free call with amount 0
C17_Witness ==
  /\ last.op = "create_order"
  /\ last.ret # NULL
  /\ now > 0
  /\ orders[last.ret].amount_total = 0
  /\ orders[last.ret].await_deadline = now + PAYMENT_TIMEOUT_MIN

\* a step in which user u redeems the text c: the call itself, or the
\* handler holding c as the code the user sent
RedeemStep(u, c) ==
  \/ call_redeem_coupon(u, c)
  \/ /\ cb_coupon_submit(u)
     /\ Strip(c) # ""
     /\ fsm[u].coupon_code = Strip(c)

\* the coupons rows whose code is the text c, trimmed and in upper case
CouponsCoded(c) == {i \in DOMAIN coupons: coupons[i].code = NormalizeCode(c)}

\* one of the checks before the per-user check refuses the text c
RefusedEarly(c) ==
  \/ NormalizeCode(c) = ""
  \/ CouponsCoded(c) = {}
  \/ \E i \in CouponsCoded(c):
       \/ ~coupons[i].is_active
       \/ coupons[i].amount <= 0
       \/ coupons[i].usage_limit > 0 /\ coupons[i].used_count >= coupons[i].usage_limit
       \/ coupons[i].expires_at # NULL /\ now > coupons[i].expires_at

\* the rows of coupon_redemptions of coupon i and user u
UsesOf(i, u) ==
  {r \in DOMAIN coupon_redemptions:
     coupon_redemptions[r].promo_id = i /\ coupon_redemptions[r].user_id = u}

Balance(us, u) == IF u \in DOMAIN us THEN us[u] ELSE 0

\* a refused redemption left balances, ledger, redemptions and coupons alone
RedeemChangedNothing ==
  /\ \A u \in UserIds: Balance(users', u) = Balance(users, u)
  /\ wallet_tx' = wallet_tx
  /\ coupon_redemptions' = coupon_redemptions
  /\ coupons' = coupons

\* user u already redeemed a coupon coded c whose usage_limit_per_user is 1
SecondUse(u, c) ==
  \E i \in CouponsCoded(c):
    /\ coupons[i].usage_limit_per_user = 1
    /\ \E r \in UsesOf(i, u): coupon_redemptions[r].times_used >= 1

\* C18 as stated: a second redemption of the same coupon by the same user
\* with usage_limit_per_user = 1 fails with the per-user limit reason and
\* changes neither balance, wallet_tx, times_used nor used_count.
C18_SecondUseRefusedPerUser ==
  [][\A u \in UserIds, c \in CouponTexts:
       (RedeemStep(u, c) /\ SecondUse(u, c)) =>
         /\ last'.ret = 0
         /\ last'.arg = "user_limit_reached"
         /\ RedeemChangedNothing]_vars

\* C18, amended: the second redemption fails and changes nothing; its reason
\* is the per-user limit reason when no earlier check (inactive, amount,
\* global usage_limit, expiry) refuses, and that earlier check's otherwise.
C18_SecondUseRefused ==
  [][\A u \in UserIds, c \in CouponTexts:
       (RedeemStep(u, c) /\ SecondUse(u, c)) =>
         /\ last'.ret = 0
         /\ RedeemChangedNothing
         /\ IF RefusedEarly(c)
            THEN last'.arg \in {"inactive", "bad_amount", "limit_reached",
                                "expired"}
            ELSE last'.arg = "user_limit_reached"]_vars

\* a second use was refused for the per-user limit, the first having paid
C18_Witness ==
  /\ last.op = "redeem_coupon"
  /\ last.arg = "user_limit_reached"
  /\ \E i \in DOMAIN coupons:
       /\ coupons[i].usage_limit_per_user = 1
       /\ coupons[i].used_count = 1
       /\ \E r \in UsesOf(i, last.user_id):
            coupon_redemptions[r].times_used = 1
  /\ users[last.user_id] = 2

\* C19: a successful redeem_coupon credits exactly the coupon amount by one
\* CREDIT row, raises the user's times_used for the coupon by 1 (the row is
\* created with 1 when absent), raises used_count by 1 and returns the
\* credited amount with the resulting balance.
C19_RedeemCredits ==
  [][\A u \in UserIds, c \in CouponTexts:
       (RedeemStep(u, c) /\ last'.ret = 1) =>
         \E i \in CouponsCoded(c):
           LET amount == coupons[i].amount IN
           /\ Balance(users', u) = Balance(users, u) + amount
           /\ Len(NewRows) = 1
           /\ NewRows[1].type = "CREDIT"
           /\ NewRows[1].amount = amount
           /\ NewRows[1].user_id = u
           /\ IF UsesOf(i, u) = {}
              THEN /\ Len(coupon_redemptions') = Len(coupon_redemptions) + 1
                   /\ coupon_redemptions'[Len(coupon_redemptions')].promo_id = i
                   /\ coupon_redemptions'[Len(coupon_redemptions')].user_id = u
                   /\ coupon_redemptions'[Len(coupon_redemptions')].times_used = 1
                   /\ SubSeq(coupon_redemptions', 1, Len(coupon_redemptions))
                        = coupon_redemptions
              ELSE /\ Len(coupon_redemptions') = Len(coupon_redemptions)
                   /\ \A r \in DOMAIN coupon_redemptions:
                        coupon_redemptions'[r].times_used =
                          coupon_redemptions[r].times_used
                            + (IF r \in UsesOf(i, u) THEN 1 ELSE 0)
           /\ coupons'[i].used_count = coupons[i].used_count + 1
           /\ last'.delta = amount
           /\ last'.balance = users'[u]]_vars

\* a coupon has paid the same user twice
C19_Witness ==
  /\ last.op = "redeem_coupon"
  /\ last.ret = 1
  /\ last.balance = 4
  /\ \E r \in DOMAIN coupon_redemptions: coupon_redemptions[r].times_used = 2

\* C20: a redeem_coupon refused because the code is empty or unknown, the
\* coupon is inactive, its amount is <= 0, its usage_limit is reached or its
\* expiry has passed changes neither balance, wallet_tx, redemption rows nor
\* used_count.
C20_RefusalWritesNothing ==
  [][\A u \in UserIds, c \in CouponTexts:
       (RedeemStep(u, c) /\ RefusedEarly(c)) =>
         /\ last'.ret = 0
         /\ last'.arg \in {"bad_code", "unknown", "inactive", "bad_amount",
                           "limit_reached", "expired"}
         /\ RedeemChangedNothing]_vars

\* a coupon that paid once is refused after its expiry
C20_Witness ==
  /\ last.op = "redeem_coupon"
  /\ last.arg = "expired"
  /\ \E i \in DOMAIN coupons: coupons[i].used_count = 1
  /\ \E u \in DOMAIN users: users[u] = 2

\* times_used of user u for coupon i, 0 without a redemption row
TimesUsed(i, u) ==
  IF UsesOf(i, u) = {} THEN 0
  ELSE coupon_redemptions[CHOOSE r \in UsesOf(i, u): TRUE].times_used

\* C21: the per-user limit is checked against times_used: for a coupon with
\* usage_limit_per_user = k > 1 that no earlier check refuses, a redemption
\* by a user who has a users row succeeds exactly when the user's times_used is below k, so the
\* first k succeed, the next fails and times_used never exceeds k.
C21_PerUserLimitCountsUses ==
  [][/\ \A u \in UserIds, c \in CouponTexts:
          (RedeemStep(u, c) /\ ~RefusedEarly(c) /\ u \in DOMAIN users') =>
            \A i \in CouponsCoded(c):
              coupons[i].usage_limit_per_user > 1 =>
                /\ (last'.ret = 1) <=> (TimesUsed(i, u) < coupons[i].usage_limit_per_user)
                /\ last'.ret = 0 => last'.arg = "user_limit_reached"
     /\ \A r \in DOMAIN coupon_redemptions':
          LET k == coupons'[coupon_redemptions'[r].promo_id].usage_limit_per_user
          IN k > 1 => coupon_redemptions'[r].times_used <= k]_vars

\* the third redemption of a coupon with a per-user limit of 2 was refused
C21_Witness ==
  /\ last.op = "redeem_coupon"
  /\ last.arg = "user_limit_reached"
  /\ \E r \in DOMAIN coupon_redemptions:
       /\ coupon_redemptions[r].times_used = 2
       /\ coupons[coupon_redemptions[r].promo_id].usage_limit_per_user = 2
  /\ users[last.user_id] = 4

\* the CREDIT rows redeem_coupon wrote for coupon i
CouponCredits(i) ==
  {x \in DOMAIN wallet_tx:
     /\ wallet_tx[x].type = "CREDIT"
     /\ wallet_tx[x].note = "COUPON:" \o coupons[i].code}

\* C22: however the redemptions of several users on one coupon with
\* usage_limit L > 0 interleave, the wallet credits made for the coupon and
\* its used_count never exceed L.
C22_GlobalLimitHolds ==
  \A i \in DOMAIN coupons:
    coupons[i].usage_limit > 0 =>
      /\ Cardinality(CouponCredits(i)) <= coupons[i].usage_limit
      /\ coupons[i].used_count <= coupons[i].usage_limit

\* two users hold a credit of a coupon whose usage_limit 2 is exhausted, and
\* a further task is waiting to redeem it
C22_Witness ==
  /\ \E i \in DOMAIN coupons:
       /\ coupons[i].usage_limit = 2
       /\ coupons[i].used_count = 2
       /\ \E x, y \in CouponCredits(i): wallet_tx[x].user_id # wallet_tx[y].user_id
  /\ running.bot # <<>>

\* C23: however the redemptions of one user on one coupon interleave, the
\* user is credited for the coupon at most usage_limit_per_user times (a
\* stored 0 counting as 1), the user's credits equal the user's times_used
\* and all the credits of the coupon equal its used_count.
C23_CreditsAreBooked ==
  \A i \in DOMAIN coupons:
    /\ Cardinality(CouponCredits(i)) = coupons[i].used_count
    /\ \A u \in ShareUserIds:
         LET mine == {x \in CouponCredits(i): wallet_tx[x].user_id = u}
         IN /\ Cardinality(mine) <= PerUserLimit(coupons[i])
            /\ Cardinality(mine) = TimesUsed(i, u)

\* a user submitted twice before either task ran; one credit was made and
\* the task left over has been refused
C23_Witness ==
  /\ running.bot = <<>>
  /\ \E i \in DOMAIN coupons:
       /\ coupons[i].usage_limit_per_user = 1
       /\ coupons[i].usage_limit = 2
       /\ coupons[i].used_count = 1
       /\ TimesUsed(i, 1) = 1
  /\ fsm[1].state = "none"
  /\ users[1] = 2

\* the call left orders, discounts and their redemptions as they were
DiscountChangedNothing ==
  /\ orders' = orders
  /\ discounts' = discounts
  /\ discount_redemptions' = discount_redemptions

\* C24: apply_discount_to_order fails and changes neither the order's
\* discount fields, the redemption rows nor used_count when the order is not
\* the caller's, is not in AWAITING_PAYMENT or already carries a discount
\* code; a second application to the same order fails as already applied.
C24_GuardedApplication ==
  [][\A u \in DiscountCallers, o \in 1..DiscountMaxOrders, c \in DiscountCodes:
       (call_apply_discount_to_order(o, u, c) /\ o \in DOMAIN orders) =>
         /\ (\/ orders[o].user_id # u
             \/ orders[o].status # "AWAITING_PAYMENT"
             \/ orders[o].discount_code # "") =>
              (last'.ret = 0 /\ DiscountChangedNothing)
         /\ (/\ orders[o].user_id = u
             /\ orders[o].status = "AWAITING_PAYMENT"
             /\ orders[o].discount_code # "") =>
              last'.arg = "already_applied"]_vars

\* a second application to a discounted order was refused
C24_Witness ==
  /\ last.op = "apply_discount_to_order"
  /\ last.arg = "already_applied"
  /\ last.order_id \in DOMAIN orders
  /\ orders[last.order_id].discount_code = "SAVE"
  /\ \E i \in DOMAIN discounts:
       discounts[i].usage_limit_per_user = 2 /\ discounts[i].used_count = 1

\* the discounts rows whose code is the text c, trimmed and in upper case
DiscountsCoded(c) ==
  {i \in DOMAIN discounts: discounts[i].code = NormalizeCode(c)}

\* C25: a discount whose applies_all flag is false is applied only to an
\* order whose product id is listed in the discount's product ids; for every
\* other order, the list being empty included, the call fails and leaves the
\* order unchanged.
C25_OnlyListedProducts ==
  [][\A u \in DiscountCallers, o \in 1..DiscountMaxOrders, c \in DiscountCodes:
       (call_apply_discount_to_order(o, u, c) /\ o \in DOMAIN orders) =>
         \A i \in DiscountsCoded(c):
           (/\ ~discounts[i].applies_all
            /\ order_product_id(orders[o]) \notin discounts[i].product_ids) =>
             (last'.ret = 0 /\ orders' = orders)]_vars

DiscountUsesOf(i, u) ==
  {r \in DOMAIN discount_redemptions:
     /\ discount_redemptions[r].promo_id = i
     /\ discount_redemptions[r].user_id = u}

Carrying(i) == {o \in DOMAIN orders: orders[o].discount_code = discounts[i].code}

C29_FailedSendsAbortNothing ==
  [][/\ expire_loop_cycle =>
          LET sel == ExpiredSelection(DB, now) IN
          /\ Len(running'.bot) = Len(sel)
          /\ \A k \in 1..Len(sel):
               LET o == sel[k]
                   reserved == orders[o].wallet_reserved_amount IN
               /\ orders'[o].status = "EXPIRED"
               /\ orders'[o].wallet_reserved_amount = 0
               /\ reserved > 0 =>
                    \E i \in 1..Len(NewRows):
                      /\ NewRows[i].type = "REFUND"
                      /\ NewRows[i].amount = reserved
                      /\ NewRows[i].order_id = o
                      /\ NewRows[i].user_id = orders[o].user_id
               /\ running'.bot[k].o = o
               /\ running'.bot[k].u = orders[o].user_id
               /\ running'.bot[k].st = "pending"
     /\ \A outcome \in SendOutcomes:
          expire_loop_send(outcome) =>
            LET q == running.bot
                k == FirstPending(q) IN
            /\ \A j \in 1..Len(q):
                 /\ orders[q[j].o].status = "EXPIRED"
                 /\ orders[q[j].o].wallet_reserved_amount = 0
            /\ TablesUnchanged
            /\ Len(running'.bot) = Len(q)
            /\ running'.bot[k].st = outcome
            /\ \A j \in 1..Len(q): j # k => running'.bot[j] = q[j]
     /\ expire_loop_sleep =>
          /\ \A j \in 1..Len(running.bot):
               running.bot[j].st \in SendOutcomes
          /\ TablesUnchanged
          /\ running'.bot = <<>>]_vars

\* the send for the first of two expired orders failed, the send for the
\* second was still made, and both orders are EXPIRED with nothing reserved
C29_Witness ==
  /\ Len(running.bot) = 2
  /\ running.bot[1].st = "failed"
  /\ running.bot[2].st = "sent"
  /\ running.bot[1].o # running.bot[2].o
  /\ \A j \in 1..2:
       /\ orders[running.bot[j].o].status = "EXPIRED"
       /\ orders[running.bot[j].o].wallet_reserved_amount = 0
  /\ \E i \in 1..Len(wallet_tx): wallet_tx[i].type = "REFUND"

\* C30: after list_cart_orders(user) every order of that user that was in a
\* blank or legacy status is AWAITING_PAYMENT, and every returned order is
\* AWAITING_PAYMENT with a non-empty await_deadline, a missing deadline
\* having been set to now + PAYMENT_TIMEOUT_MIN.
C30_CartNormalizesLegacyOrders ==
  [][\A u \in UserIds:
       on_reply_cart(u) =>
         LET rows == list_cart_orders(ensure_user(DB, u), u, now).rows IN
         /\ \A o \in DOMAIN orders:
              (orders[o].user_id = u /\ BlankOrLegacy(orders[o].status)) =>
                orders'[o].status = "AWAITING_PAYMENT"
         /\ \A k \in 1..Len(rows):
              /\ orders'[rows[k]].status = "AWAITING_PAYMENT"
              /\ orders'[rows[k]].await_deadline \notin {NULL, EMPTY}
              /\ orders[rows[k]].await_deadline \in {NULL, EMPTY} =>
                   orders'[rows[k]].await_deadline = now + PAYMENT_TIMEOUT_MIN]_vars

\* C31: every order id create_order returns is strictly greater than every
\* id issued before it and, when ORDER_ID_MIN_VALUE > 0, not below
\* ORDER_ID_MIN_VALUE, whether the orders table was empty or populated.
C31_OrderIdsGrow ==
  [][\A u \in UserIds, p \in ApiPrices:
       (create_order_and_confirm_floor(u, p) /\ last'.ret # NULL) =>
         /\ \A k \in 1..Len(order_seq.ids): last'.ret > order_seq.ids[k]
         /\ order_seq.floor > 0 => last'.ret >= order_seq.floor
         /\ order_seq'.ids = Append(order_seq.ids, last'.ret)]_vars

\* an id was issued on a populated table under a floor above its ids, and a
\* later one under a floor below them
C31_Witness ==
  /\ last.op = "create_order"
  /\ order_seq.ids = <<1, 4, 5>>
  /\ order_seq.floor = 2
  /\ last.ret = 5

\* C32: in every reachable state the status of every order is one of the
\* ten lifecycle codes, whichever registered handler wrote it.
C32_StatusIsLifecycleCode ==
  \A o \in DOMAIN orders: orders[o].status \in LIFECYCLE_STATUSES

\* the sum of the wallet_tx rows of order o of type typ
SumOfType(tx, o, typ) ==
  SumRows(tx, {i \in 1..Len(tx): tx[i].order_id = o /\ tx[i].type = typ})

\* C33: for every order, wallet_reserved_amount equals the sum of its RESERVE
\* rows less what was refunded and less what was folded into
\* wallet_used_amount (the part of wallet_used_amount no DEBIT row accounts
\* for), also after the mixed-payment reservation is made more than once.
C33_ReservedFundsAreKept ==
  \A o \in DOMAIN orders:
    orders[o].wallet_reserved_amount =
      SumOfType(wallet_tx, o, "RESERVE") - SumOfType(wallet_tx, o, "REFUND")
        - (orders[o].wallet_used_amount - SumOfType(wallet_tx, o, "DEBIT"))

\* what the customer paid for order o: the wallet units reserved or debited
\* for it and, once a card payment type was chosen, the whole remainder of
\* amount_total
PaidFor(o) ==
  LET wallet_part == SumOfType(wallet_tx, o, "RESERVE")
                       + SumOfType(wallet_tx, o, "DEBIT")
  IN IF orders[o].payment_type \in {"CARD", "MIXED"}
     THEN Max(orders[o].amount_total, wallet_part)
     ELSE wallet_part

\* what was returned to the owner for order o: REFUND rows and card-refund
\* CREDIT rows
ReturnedFor(o) ==
  SumOfType(wallet_tx, o, "REFUND") + SumRows(wallet_tx, RowsOf(wallet_tx, o, "CARD_REFUND"))

\* C34: for every order and any sequence of staff status changes, the total
\* returned to the owner's wallet for the order never exceeds what the
\* customer paid for it.
C34_RefundWithinPaid ==
  \A o \in DOMAIN orders: ReturnedFor(o) <= PaidFor(o)

\* the REFUND rows of order o in the ledger tx
RefundRows(tx, o) ==
  {i \in 1..Len(tx): tx[i].order_id = o /\ tx[i].type = "REFUND"}

\* C35: when the sweeper's expiry and the customer's cancellation meet on one
\* order, in either order and with the cancellation arriving between any two
\* awaits of the sweeper, the reservation is refunded exactly once: the step
\* that ends the order (to EXPIRED or to CANCELED) appends one REFUND row of
\* the reserved amount, no other step appends one, and the order never has
\* more than one.
C35_ExpiryAndCancelRefundOnce ==
  [][\A o \in DOMAIN orders:
       LET reserved == orders[o].wallet_reserved_amount
           added == RefundRows(wallet_tx', o) \ RefundRows(wallet_tx, o)
       IN /\ Cardinality(RefundRows(wallet_tx', o)) <= 1
          /\ IF /\ orders'[o].status \in {"EXPIRED", "CANCELED"}
                /\ orders[o].status \notin {"EXPIRED", "CANCELED"}
                /\ reserved > 0
             THEN /\ Cardinality(added) = 1
                  /\ \A i \in added: /\ wallet_tx'[i].amount = reserved
                                     /\ wallet_tx'[i].user_id = orders[o].user_id
                  /\ users'[orders[o].user_id]
                       = users[orders[o].user_id] + reserved
                  /\ orders'[o].wallet_reserved_amount = 0
             ELSE added = {}]_vars

\* the sweeper has expired an order and refunded its reservation once, its
\* notification not yet sent, so that a cancellation can arrive now
C35_Witness ==
  /\ running.bot # <<>>
  /\ running.bot[1].st = "pending"
  /\ orders[running.bot[1].o].status = "EXPIRED"
  /\ Cardinality(RefundRows(wallet_tx, running.bot[1].o)) = 1
  /\ \E i \in RefundRows(wallet_tx, running.bot[1].o): wallet_tx[i].amount = 1
  /\ users[orders[running.bot[1].o].user_id] = 4

\* the delta of the change_wallet call that appended the row: negative for a
\* reservation, a payment and the panel's debit, positive otherwise
DeltaOf(row) ==
  IF row.note = "ADMIN"
  THEN (IF row.type = "DEBIT" THEN -row.amount ELSE row.amount)
  ELSE Signed(row)

RECURSIVE SumOfDeltas(_, _)
SumOfDeltas(tx, u) ==
  IF tx = <<>> THEN 0
  ELSE (IF Head(tx).user_id = u THEN DeltaOf(Head(tx)) ELSE 0)
       + SumOfDeltas(Tail(tx), u)

\* C36: no wallet update is lost: once the change_wallet calls that
\* interleaved statement by statement have returned True (each has appended
\* its row), the balance is the initial balance, 0, plus all their deltas.
C36_NoWalletUpdateLost ==
  running = Idle =>
    \A u \in DOMAIN users: users[u] = SumOfDeltas(wallet_tx, u)

\* C37: an order is paid from the wallet at most once: however the wallet
\* payment confirmations for it repeat or interleave, the DEBIT rows
\* recorded for the order never sum to more than its payable amount.
C37_WalletPaysAtMostOnce ==
  \A o \in DOMAIN orders:
    SumOfType(wallet_tx, o, "DEBIT") <= get_order_payable_amount(orders[o])

\* C38: under every interleaving of the statements of concurrent
\* set_order_status calls on one order (the bot's wallet confirmation and a
\* status change from the admin panel), the cashback credited for the order
\* never exceeds floor(amount_total * cashback_percent / 100).
C38_CashbackOnceUnderRaces ==
  \A o \in DOMAIN orders:
    CashbackCredited(wallet_tx, o) <= CashbackTotal(orders[o])

\* C39: no order enters PENDING_PLAN while its owner already has an order in
\* DELIVERED or COMPLETED: the eligibility found when the plan was chosen
\* still holds when the plan request is confirmed, whatever happened to the
\* user's other orders in between.
C39_PlanOnlyForFirstPurchase ==
  [][\A o \in DOMAIN orders:
       (orders[o].status # "PENDING_PLAN" /\ orders'[o].status = "PENDING_PLAN")
         => ~user_has_delivered_order(DB, orders[o].user_id)]_vars

\* C10: wallet_reserved_amount + wallet_used_amount <= amount_total for
\* every order in every reachable state.
C10_WalletPartWithinTotal ==
  \A o \in DOMAIN orders:
    orders[o].wallet_reserved_amount + orders[o].wallet_used_amount
      <= orders[o].amount_total



====
